---- MODULE Spec2Model ----
(***************************************************************************)
(* Image benchmark and security-scan pipeline of trouter-cli.              *)
(*                                                                         *)
(* DockerPerformance.testPerformance (src/lib/docker-performance.js) and   *)
(* DockerScanner.scanImage (src/unnamed/part_001) drive the container      *)
(* engine through execSync calls.  One action of this module is one        *)
(* execSync call together with the JavaScript that runs up to the next     *)
(* call; the engine's answer (exit status, output) is the action's input.  *)
(*                                                                         *)
(* Decimal fractions are carried in hundredths (12.5 is 1250).             *)
(***************************************************************************)
EXTENDS Integers, Sequences, FiniteSets, TLC

\* ------------------------------------------------------------------------
\* Bounds of the model (inputs of the environment, not program constants)
\* ------------------------------------------------------------------------
MaxNow == 1                \* Date.now() readings used for the temporary tag

\* Wall-clock durations (ms) the timed operations may take.  The lifecycle of
\* images and containers does not depend on them.
BuildElapsedMs == {12000}
StartupElapsedMs == {4200}
DiskWriteMs == {800}
DiskReadMs == {250}

\* ------------------------------------------------------------------------
\* Program constants
\* ------------------------------------------------------------------------
BuildIterations == 3
StartupIterations == 5
CpuSamples == 10
WaitTimeoutMs == 30000
PollMs == 500

PerfImageName == "trouter-perf-test"
ScanImageName == "trouter-temp-scan"
PingTargets == <<"8.8.8.8", "1.1.1.1", "google.com">>

\* JavaScript null/undefined for the optional imageTag argument
Null == "<null>"
\* JavaScript NaN (sizes and percentages are never negative)
NaN == 0 - 1
\* no container
NoContainer == "<none>"

\* `imageTag || ...` and `!imageTag`: null, undefined and '' are falsy
Truthy(tag) == tag \notin {Null, ""}

\* `${this.imageName}-${Date.now()}`
TempTag(imageName, t) == imageName \o "-" \o ToString(t)
\* `${this.imageName}-build-test`
BuildTestTag == PerfImageName \o "-build-test"
\* `${this.imageName}-startup-test-${i}`, `${this.imageName}-memory-test`, ...
ContainerName(probe, k) ==
  IF probe = "startup" THEN PerfImageName \o "-startup-test-" \o ToString(k)
  ELSE PerfImageName \o "-" \o probe \o "-test"

\* tags the caller may pass on the command line (-i/--image), or none
CallerTags == {Null, "myapp:latest", BuildTestTag}

\* ------------------------------------------------------------------------
\* Pure helpers
\* ------------------------------------------------------------------------
RECURSIVE SumSeq(_)
SumSeq(s) == IF s = <<>> THEN 0 ELSE Head(s) + SumSeq(Tail(s))

RECURSIVE MinSeq(_)
MinSeq(s) ==
  IF Len(s) = 1 THEN s[1]
  ELSE LET m == MinSeq(Tail(s)) IN IF Head(s) < m THEN Head(s) ELSE m

RECURSIVE MaxSeq(_)
MaxSeq(s) ==
  IF Len(s) = 1 THEN s[1]
  ELSE LET m == MaxSeq(Tail(s)) IN IF Head(s) > m THEN Head(s) ELSE m

RoundDivDown(a, b) == a \div b

\* Math.round(a / b) for a >= 0, b > 0 (halves round up)
RoundDiv(a, b) == (2 * a + b) \div (2 * b)

\* the record both timing probes return over their samples
TimingResult(times) ==
  IF Len(times) = 0
  THEN [average |-> 0, min |-> 0, max |-> 0, unit |-> "ms"]
  ELSE [average |-> RoundDiv(SumSeq(times), Len(times)),
        min |-> MinSeq(times), max |-> MaxSeq(times),
        unit |-> "ms", samples |-> Len(times)]

\* ---- memory statistics (measureMemoryUsage and its helpers) -------------
\* A size string is its number (in hundredths), the text between the number
\* and its suffix, and the suffix: "128MiB" is [n |-> 12800, sep |-> "",
\* unit |-> "MiB"], "1.5 KiB" is [n |-> 150, sep |-> " ", unit |-> "KiB"].
\* Byte counts are carried in hundredths as well.
RECURSIVE Pow(_, _)
Pow(b, e) == IF e = 0 THEN 1 ELSE b * Pow(b, e - 1)

MemoryUnits == [B |-> 0, KiB |-> 1, MiB |-> 1, GiB |-> 2, TiB |-> 3]

\* a variant that also accepts the decimal suffixes
MemorySuffixesOfBoth == {"B", "KiB", "MiB", "GiB", "TiB", "kB", "MB", "GB"}

MemorySuffixes == {"B", "KiB", "MiB", "GiB", "TiB"}

\* sizeStr.match(/(\d+\.?\d*)(B|KiB|MiB|GiB|TiB)/) || []: the suffix must
\* follow the number at once; the match is the whole match, then the number
\* group (its text), then the suffix group
MemoryMatch(sizeStr) ==
  IF sizeStr.sep = "" /\ sizeStr.unit \in MemorySuffixes
  THEN <<sizeStr, ToString(sizeStr.n), sizeStr.unit>>
  ELSE <<>>

\* const [size, unit] = match: size is the whole match and unit the number
\* group; parseFloat(size) * Math.pow(1024, units[unit] || 0)
parseMemorySize(sizeStr) ==
  LET m == MemoryMatch(sizeStr)
      unit == IF Len(m) >= 2 THEN m[2] ELSE "undefined"
      exponent == IF unit \in DOMAIN MemoryUnits THEN MemoryUnits[unit] ELSE 0
  IN IF Len(m) = 0 THEN NaN ELSE m[1].n * Pow(1024, exponent)

FormatUnits == <<"B", "KiB", "MiB", "GiB">>

\* number of divisions by 1024 the formatting loop performs
RECURSIVE FormatIndex(_, _)
FormatIndex(bytes, k) ==
  IF k < Len(FormatUnits) - 1 /\ bytes \div 100 >= Pow(1024, k + 1)
  THEN FormatIndex(bytes, k + 1)
  ELSE k

\* `${Math.round(size * 100) / 100} ${units[unitIndex]}`
formatMemorySize(bytes) ==
  IF bytes = NaN THEN [n |-> NaN, sep |-> " ", unit |-> "B"]
  ELSE LET k == FormatIndex(bytes, 0)
           d == Pow(1024, k)
       IN [n |-> (bytes \div d) + (IF 2 * (bytes % d) >= d THEN 1 ELSE 0),
           sep |-> " ", unit |-> FormatUnits[k + 1]]

calculateMemoryEfficiency(current, total) ==
  IF total = 0 THEN "Unknown"
  ELSE IF current = NaN \/ total = NaN THEN "Poor"
  ELSE IF current * 100 < 10 * total THEN "Excellent"
  ELSE IF current * 100 < 25 * total THEN "Good"
  ELSE IF current * 100 < 50 * total THEN "Fair"
  ELSE "Poor"

\* what `docker stats --format "{{.MemUsage}}\t{{.MemPerc}}"` may print:
\* "128MiB / 2GiB\t6.00%", or a line without the tab (memPercent undefined)
MemStatsOutputs ==
  { [tab |-> TRUE, current |-> [n |-> 12800, sep |-> "", unit |-> "MiB"],
     total |-> [n |-> 200, sep |-> "", unit |-> "GiB"], perc |-> 600],
    [tab |-> FALSE, current |-> [n |-> 0, sep |-> "", unit |-> ""],
     total |-> [n |-> 0, sep |-> "", unit |-> ""], perc |-> NaN] }

\* the size string 'Unknown': no number, no separator
UnknownSize == [n |-> NaN, sep |-> "", unit |-> "Unknown"]

MemoryFailed ==
  [current |-> UnknownSize, total |-> UnknownSize, percentage |-> 0,
   efficiency |-> "Unknown"]

\* the return expression of measureMemoryUsage; memPercent.replace throws
\* when the line had no tab, and the probe's handler returns the sentinel
MemoryResult(stats) ==
  IF ~stats.tab THEN MemoryFailed
  ELSE LET current == parseMemorySize(stats.current)
           total == parseMemorySize(stats.total)
       IN [current |-> formatMemorySize(current),
           total |-> formatMemorySize(total),
           percentage |-> stats.perc,
           efficiency |-> calculateMemoryEfficiency(current, total)]

\* ---- CPU statistics ------------------------------------------------------
CpuStatsOutputs == {1250}     \* parseFloat of "12.50%", in hundredths

calculateCPUEfficiency(sum, n) ==
  IF sum < 500 * n THEN "Excellent"
  ELSE IF sum < 1500 * n THEN "Good"
  ELSE IF sum < 3000 * n THEN "Fair"
  ELSE "Poor"

CpuFailed == [average |-> 0, max |-> 0, samples |-> 0, efficiency |-> "Unknown"]

CpuResult(measurements) ==
  [average |-> RoundDiv(SumSeq(measurements), Len(measurements)),
   max |-> MaxSeq(measurements),
   samples |-> Len(measurements),
   efficiency |-> calculateCPUEfficiency(SumSeq(measurements), Len(measurements))]

\* ---- network latency -----------------------------------------------------
\* what a successful `ping -c 3` printed: a line the pattern /avg = (\d+\.?\d+)/
\* matches, with the parsed number in hundredths, or no such line
PingOutputs == { [matched |-> TRUE, avg |-> 2350], [matched |-> FALSE, avg |-> 0] }

\* null is carried as 0: the caller only tests the value for truthiness
extractPingAverage(pingOutput) ==
  IF pingOutput.matched THEN pingOutput.avg ELSE 0

RECURSIVE SumAvg(_)
SumAvg(rs) == IF rs = <<>> THEN 0 ELSE Head(rs).avgTime + SumAvg(Tail(rs))

NetworkFailed == [average |-> 0, targets |-> <<>>, unit |-> "ms", status |-> "Failed"]

NetworkResult(pingResults) ==
  IF Len(pingResults) = 0 THEN NetworkFailed
  ELSE [average |-> RoundDiv(SumAvg(pingResults), Len(pingResults)),
        targets |-> pingResults, unit |-> "ms", status |-> "Success"]

\* ---- disk I/O ------------------------------------------------------------
DiskTestFailed == [speed |-> 0, unit |-> "MB/s", status |-> "Failed"]

\* Math.round(mb / (ms / 1000) * 100) / 100, in hundredths
DiskTestOk(mb, ms) ==
  [speed |-> RoundDiv(mb * 100000, ms), unit |-> "MB/s", status |-> "Success"]

\* a variant that rates a failed test by its speed 0
calculateOverallDiskPerformanceOfSpeeds(writeTest, readTest) ==
  LET sum == writeTest.speed + readTest.speed
  IN IF sum > 2 * 10000 THEN "Excellent"
     ELSE IF sum > 2 * 5000 THEN "Good"
     ELSE IF sum > 2 * 2000 THEN "Fair"
     ELSE "Poor"

\* a variant whose bands include their lower limit
calculateOverallDiskPerformanceInclusive(writeTest, readTest) ==
  IF writeTest.status = "Failed" \/ readTest.status = "Failed" THEN "Unknown"
  ELSE LET sum == writeTest.speed + readTest.speed
       IN IF sum >= 2 * 10000 THEN "Excellent"
          ELSE IF sum >= 2 * 5000 THEN "Good"
          ELSE IF sum >= 2 * 2000 THEN "Fair"
          ELSE "Poor"

calculateOverallDiskPerformance(writeTest, readTest) ==
  IF writeTest.status = "Failed" \/ readTest.status = "Failed" THEN "Unknown"
  ELSE LET sum == writeTest.speed + readTest.speed
       IN IF sum > 2 * 10000 THEN "Excellent"
          ELSE IF sum > 2 * 5000 THEN "Good"
          ELSE IF sum > 2 * 2000 THEN "Fair"
          ELSE "Poor"

DiskFailed == [write |-> DiskTestFailed, read |-> DiskTestFailed, overall |-> "Unknown"]

DiskResult(writeTest, readTest) ==
  [write |-> writeTest, read |-> readTest,
   overall |-> calculateOverallDiskPerformance(writeTest, readTest)]

\* ---- recommendations -----------------------------------------------------
Rec(c, p) == [category |-> c, priority |-> p]

generateRecommendationsInclusive(p) ==
     (IF p.buildTime.average >= 60000 THEN <<Rec("Build", "High")>> ELSE <<>>)
  \o (IF p.startupTime.average > 10000 THEN <<Rec("Startup", "High")>> ELSE <<>>)
  \o (IF p.memoryUsage.percentage > 80 * 100 THEN <<Rec("Memory", "High")>> ELSE <<>>)
  \o (IF p.cpuUsage.average > 50 * 100 THEN <<Rec("CPU", "Medium")>> ELSE <<>>)
  \o (IF p.networkLatency.status = "Success" /\ p.networkLatency.average > 100 * 100
      THEN <<Rec("Network", "Low")>> ELSE <<>>)
  \o (IF p.diskIO.overall = "Poor" THEN <<Rec("Disk", "Medium")>> ELSE <<>>)

generateRecommendations(p) ==
     (IF p.buildTime.average > 60000 THEN <<Rec("Build", "High")>> ELSE <<>>)
  \o (IF p.startupTime.average > 10000 THEN <<Rec("Startup", "High")>> ELSE <<>>)
  \o (IF p.memoryUsage.percentage > 80 * 100 THEN <<Rec("Memory", "High")>> ELSE <<>>)
  \o (IF p.cpuUsage.average > 50 * 100 THEN <<Rec("CPU", "Medium")>> ELSE <<>>)
  \o (IF p.networkLatency.status = "Success" /\ p.networkLatency.average > 100 * 100
      THEN <<Rec("Network", "Low")>> ELSE <<>>)
  \o (IF p.diskIO.overall = "Poor" THEN <<Rec("Disk", "Medium")>> ELSE <<>>)

\* ------------------------------------------------------------------------
\* Strings the scanner takes apart are sequences of one-character strings
\* ------------------------------------------------------------------------
DigitChars == <<"0", "1", "2", "3", "4", "5", "6", "7", "8", "9">>
IsDigit(c) == \E d \in 1..Len(DigitChars) : DigitChars[d] = c
DigitValue(c) == (CHOOSE d \in 1..Len(DigitChars) : DigitChars[d] = c) - 1

RECURSIVE DecimalValue(_)
DecimalValue(cs) ==
  IF cs = <<>> THEN 0
  ELSE DecimalValue(SubSeq(cs, 1, Len(cs) - 1)) * 10 + DigitValue(cs[Len(cs)])

\* Number(part) for a part made of digits, the empty part, or anything else
Number(part) ==
  IF \A k \in 1..Len(part) : IsDigit(part[k]) THEN DecimalValue(part) ELSE NaN

RECURSIVE Split(_, _)
Split(cs, sep) ==
  IF \A k \in 1..Len(cs) : cs[k] # sep THEN <<cs>>
  ELSE LET k == CHOOSE j \in 1..Len(cs) :
                  cs[j] = sep /\ \A m \in 1..(j - 1) : cs[m] # sep
       IN <<SubSeq(cs, 1, k - 1)>> \o Split(SubSeq(cs, k + 1, Len(cs)), sep)

RECURSIVE TrimLeft(_)
TrimLeft(cs) == IF cs # <<>> /\ cs[1] = " " THEN TrimLeft(Tail(cs)) ELSE cs

RECURSIVE TrimRight(_)
TrimRight(cs) ==
  IF cs # <<>> /\ cs[Len(cs)] = " "
  THEN TrimRight(SubSeq(cs, 1, Len(cs) - 1)) ELSE cs

Trim(cs) == TrimRight(TrimLeft(cs))

StartsWith(cs, prefix) ==
  Len(prefix) <= Len(cs) /\ SubSeq(cs, 1, Len(prefix)) = prefix

\* pattern.replace('.x', ''): the first occurrence only
ReplaceDotX(cs) ==
  LET at == {k \in 1..(Len(cs) - 1) : cs[k] = "." /\ cs[k + 1] = "x"}
  IN IF at = {} THEN cs
     ELSE LET k == CHOOSE j \in at : \A m \in at : j <= m
          IN SubSeq(cs, 1, k - 1) \o SubSeq(cs, k + 2, Len(cs))

\* v.replace(/^v/, '').split('.').map(Number)
normalize(v) ==
  LET parts == Split(IF v # <<>> /\ v[1] = "v" THEN Tail(v) ELSE v, ".")
  IN [k \in 1..Len(parts) |-> Number(parts[k])]

compareVersions(v1, v2) ==
  LET a == normalize(v1)
      b == normalize(v2)
      n == IF Len(a) > Len(b) THEN Len(a) ELSE Len(b)
      At(x, k) == IF k <= Len(x) /\ x[k] # NaN THEN x[k] ELSE 0
      diffs == {k \in 1..n : At(a, k) # At(b, k)}
  IN IF diffs = {} THEN 0
     ELSE LET k == CHOOSE j \in diffs : \A m \in diffs : j <= m
          IN At(a, k) - At(b, k)

vulnerableVersions ==
  << <<"v", "1", "4", ".", "x">>, <<"v", "1", "5", ".", "x">>,
     <<"v", "1", "6", ".", "x">>, <<"v", "1", "7", ".", "x">>,
     <<"v", "1", "8", ".", "x", " ", "<", " ", "1", "8", ".", "1", "7", ".", "0">>,
     <<"v", "2", "0", ".", "x", " ", "<", " ", "2", "0", ".", "5", ".", "0">> >>

isNodeVulnerable(version) ==
  \E k \in 1..Len(vulnerableVersions) :
    LET pattern == vulnerableVersions[k]
    IN IF \E j \in 1..Len(pattern) : pattern[j] = "<"
       THEN LET parts == Split(pattern, "<")
            IN /\ StartsWith(version, Trim(parts[1]))
               /\ compareVersions(version, Trim(parts[2])) < 0
       ELSE StartsWith(version, ReplaceDotX(pattern))

isVersionInRangeInclusive(version, range) ==
  IF StartsWith(range, <<"<">>)
  THEN compareVersions(version, Trim(Tail(range))) <= 0
  ELSE FALSE

isVersionInRange(version, range) ==
  IF StartsWith(range, <<"<">>)
  THEN compareVersions(version, Trim(Tail(range))) < 0
  ELSE FALSE

vulnerablePackages ==
  [lodash |-> [versions |-> <<"<", "4", ".", "1", "7", ".", "2", "1">>,
               severity |-> "high"],
   axios |-> [versions |-> <<"<", "0", ".", "2", "1", ".", "1">>,
              severity |-> "medium"],
   request |-> [versions |-> <<"*">>, severity |-> "high"],
   moment |-> [versions |-> <<"<", "2", ".", "2", "9", ".", "4">>,
               severity |-> "medium"]]

\* names every object inherits: vulnerablePackages[name] is truthy for them
ObjectPrototype ==
  {"constructor", "toString", "valueOf", "hasOwnProperty", "__proto__"}

\* vuln.versions is undefined for an inherited name, and range.startsWith
\* raises a TypeError
checkPackageVulnerabilityThrows(pkg) == pkg.name \in ObjectPrototype

\* the finding for pkg as a list: empty for null
checkPackageVulnerability(pkg) ==
  IF pkg.name \in DOMAIN vulnerablePackages
  THEN LET vuln == vulnerablePackages[pkg.name]
       IN IF vuln.versions = <<"*">> \/ isVersionInRange(pkg.version, vuln.versions)
          THEN << [package |-> pkg.name, version |-> pkg.version,
                   severity |-> vuln.severity] >>
          ELSE <<>>
  ELSE <<>>

\* packages.forEach(...): an error ends the loop, and the handler of
\* checkCommonVulnerabilities keeps the findings pushed so far
RECURSIVE PackageFindings(_)
PackageFindings(packages) ==
  IF packages = <<>> \/ checkPackageVulnerabilityThrows(Head(packages)) THEN <<>>
  ELSE checkPackageVulnerability(Head(packages)) \o PackageFindings(Tail(packages))

checkCommonVulnerabilities(version, packages) ==
     (IF version # <<>> /\ isNodeVulnerable(version)
      THEN << [package |-> "node", version |-> version, severity |-> "high"] >>
      ELSE <<>>)
  \o PackageFindings(packages)

\* severity.toLowerCase() on the spellings the scanners print
ToLowerCase(str) ==
  CASE str \in {"CRITICAL", "Critical"} -> "critical"
    [] str \in {"HIGH", "High"} -> "high"
    [] str \in {"MEDIUM", "Medium"} -> "medium"
    [] str \in {"LOW", "Low"} -> "low"
    [] str \in {"INFO", "Info"} -> "info"
    [] str \in {"UNKNOWN", "Unknown"} -> "unknown"
    [] str \in {"NEGLIGIBLE", "Negligible"} -> "negligible"
    [] OTHER -> str

\* a variant that files a finding under its severity as spelled
categorizeVulnerabilityAsSpelled(severity) ==
  IF severity \in {"critical", "high", "medium", "low", "info"}
  THEN severity ELSE "info"

categorizeVulnerability(severity) ==
  LET category == ToLowerCase(severity)
  IN IF category \in {"critical", "high", "medium", "low", "info"}
     THEN category ELSE "info"

NoVulnerabilities ==
  [critical |-> <<>>, high |-> <<>>, medium |-> <<>>, low |-> <<>>,
   info |-> <<>>, total |-> 0]

\* the forEach that files each finding under its category
RECURSIVE Categorize(_, _)
Categorize(vulnerabilities, vulns) ==
  IF vulns = <<>> THEN vulnerabilities
  ELSE Categorize(
         [vulnerabilities EXCEPT
            ![categorizeVulnerability(Head(vulns).severity)] = Append(@, Head(vulns)),
            !.total = @ + 1],
         Tail(vulns))

\* basicVulnerabilityScan over the runtime version and the packages found
basicVulnerabilityScan(version, packages) ==
  Categorize(NoVulnerabilities, checkCommonVulnerabilities(version, packages))

\* parseVulnerabilityData: the tool's findings are not read
parseVulnerabilityData(data) == NoVulnerabilities

\* parseTrivyResults: the findings of the first result only
parseTrivyResults(data) ==
  IF Len(data.Results) > 0
  THEN Categorize(NoVulnerabilities, data.Results[1].Vulnerabilities)
  ELSE NoVulnerabilities

\* what `trivy image --format json` may print: text that is not JSON, or JSON
TrivyOutputs ==
  { [json |-> FALSE, Results |-> <<>>],
    [json |-> TRUE,
     Results |-> << [Vulnerabilities |->
                       << [package |-> "openssl", version |-> <<"3", ".", "0">>,
                           severity |-> "HIGH"],
                          [package |-> "zlib", version |-> <<"1", ".", "2">>,
                           severity |-> "UNKNOWN"] >>] >>] }

\* what `node --version` may print
NodeVersionOutputs ==
  { <<"v", "1", "6", ".", "2", "0", ".", "0">>,
    <<"v", "1", "8", ".", "1", "6", ".", "0">> }

\* what `npm list --depth=0 --json` may print, as the dependency list
NpmListOutputs ==
  { << [name |-> "request", version |-> <<"2", ".", "8", "8", ".", "0">>],
       [name |-> "lodash", version |-> <<"4", ".", "1", "7", ".", "2", "1">>] >> }

\* ---- image size and layers ----------------------------------------------
ImageSizeOutputs == {"145MB"}

SizeUnits == [B |-> 0, kB |-> 1, MB |-> 2, GB |-> 3]

SizeSuffixes == {"B", "kB", "MB", "GB"}

\* sizeStr.match(/(\d+\.?\d*)(B|kB|MB|GB)/) || []: a size is its number and
\* its suffix; the match is the whole match, then the number group (its
\* text), then the suffix group
SizeMatch(sizeStr) ==
  IF sizeStr.unit \in SizeSuffixes
  THEN <<sizeStr, ToString(sizeStr.n), sizeStr.unit>>
  ELSE <<>>

\* const [size, unit] = match: size is the whole match and unit the number
\* group; parseFloat(size) * Math.pow(1000, units[unit] || 0)
parseSize(sizeStr) ==
  IF sizeStr = [n |-> 0, unit |-> "B"] THEN 0
  ELSE LET m == SizeMatch(sizeStr)
           unit == IF Len(m) >= 2 THEN m[2] ELSE "undefined"
           exponent == IF unit \in DOMAIN SizeUnits THEN SizeUnits[unit] ELSE 0
       IN IF Len(m) = 0 THEN NaN ELSE m[1].n * Pow(1000, exponent)

NoSize == [n |-> 0, unit |-> ""]

\* a line of `docker history`: the number of tab-separated fields it has,
\* and the first two of them trimmed
HistoryLine(command, size) == [fields |-> 2, command |-> command, size |-> size]
BlankLine == [fields |-> 1, command |-> "", size |-> NoSize]

\* the output without and with the empty line after its last newline
HistoryOutputs ==
  { << HistoryLine("COPY . /app", [n |-> 5, unit |-> "MB"]),
       HistoryLine("RUN npm ci", [n |-> 900, unit |-> "kB"]) >>,
    << HistoryLine("COPY . /app", [n |-> 5, unit |-> "MB"]),
       HistoryLine("RUN npm ci", [n |-> 900, unit |-> "kB"]),
       BlankLine >> }

SelectLayers(lines) ==
  SelectSeq(lines, LAMBDA l : l.command # "" /\ l.size # NoSize)

\* layers.sort((a, b) => parseSize(b.size) - parseSize(a.size)): stable,
\* descending
RECURSIVE InsertLayer(_, _)
InsertLayer(sorted, l) ==
  IF sorted = <<>> THEN <<l>>
  ELSE IF parseSize(l.size) > parseSize(Head(sorted).size)
  THEN <<l>> \o sorted
  ELSE <<Head(sorted)>> \o InsertLayer(Tail(sorted), l)

RECURSIVE SortLayers(_)
SortLayers(ls) ==
  IF ls = <<>> THEN <<>>
  ELSE InsertLayer(SortLayers(SubSeq(ls, 1, Len(ls) - 1)), ls[Len(ls)])

NoLayers == [total |-> 0, layers |-> <<>>, largestLayers |-> <<>>]

\* the result of analyzeLayers for the engine's output; size.trim() throws on
\* a line without a tab, and the handler returns the empty result; sort works
\* in place, on the array that is also the layers field
LayersResult(lines) ==
  IF \E k \in 1..Len(lines) : lines[k].fields < 2 THEN NoLayers
  ELSE LET layers == SelectLayers(lines)
           sorted == SortLayers(layers)
       IN [total |-> Len(layers),
           layers |-> sorted,
           largestLayers |-> SubSeq(sorted, 1, IF Len(sorted) < 5 THEN Len(sorted) ELSE 5)]

\* ---- secrets --------------------------------------------------------------
\* an entry of the extracted /app: a directory with its entries (or one that
\* fs.readdir cannot read), or a file with the patterns its content matches
\* (in the order of secretPatterns)
Dir(name, entries) ==
  [name |-> name, dir |-> TRUE, readable |-> TRUE, scanned |-> FALSE,
   hits |-> <<>>, entries |-> entries]
UnreadableDir(name) ==
  [name |-> name, dir |-> TRUE, readable |-> FALSE, scanned |-> FALSE,
   hits |-> <<>>, entries |-> <<>>]
File(name, scanned, hits) ==
  [name |-> name, dir |-> FALSE, readable |-> TRUE, scanned |-> scanned,
   hits |-> hits, entries |-> <<>>]

\* what `docker cp <id>:/app` may leave in .trouter-temp: no app directory,
\* an app directory, one whose subdirectory cannot be read, one that cannot
\* be read itself
AppTrees ==
  { [exists |-> FALSE, readable |-> TRUE, entries |-> <<>>],
    [exists |-> TRUE, readable |-> TRUE,
     entries |-> << File("config.js", TRUE, << [type |-> "password", matches |-> 2] >>),
                    File("logo.png", FALSE, <<>>),
                    Dir("lib", << File("config.js", TRUE,
                                       << [type |-> "token", matches |-> 1] >>) >>) >>],
    [exists |-> TRUE, readable |-> TRUE,
     entries |-> << File("config.js", TRUE, << [type |-> "password", matches |-> 2] >>),
                    UnreadableDir("lib") >>],
    [exists |-> TRUE, readable |-> FALSE, entries |-> <<>>] }

\* the findings of one file: path.relative(dir, filePath) is the file's name
FileSecrets(file) ==
  [k \in 1..Len(file.hits) |->
     [file |-> file.name, type |-> file.hits[k].type,
      matches |-> file.hits[k].matches, severity |-> "high"]]

\* the findings pushed to `secrets` while the entries of a directory are
\* visited, and whether fs.readdir of a subdirectory raised on the way
RECURSIVE scanDirectoryForSecrets(_)
scanDirectoryForSecrets(entries) ==
  IF entries = <<>> THEN [secrets |-> <<>>, threw |-> FALSE]
  ELSE LET e == Head(entries)
           first == IF e.dir
                    THEN IF e.readable THEN scanDirectoryForSecrets(e.entries)
                         ELSE [secrets |-> <<>>, threw |-> TRUE]
                    ELSE [secrets |-> IF e.scanned THEN FileSecrets(e) ELSE <<>>,
                          threw |-> FALSE]
       IN IF first.threw THEN first
          ELSE LET rest == scanDirectoryForSecrets(Tail(entries))
               IN [secrets |-> first.secrets \o rest.secrets, threw |-> rest.threw]

\* ------------------------------------------------------------------------
\* State
\* ------------------------------------------------------------------------
VARIABLES
  entry,         \* the method the CLI invoked: "testPerformance" or "scanImage"
  imageTag,      \* its argument (options.image)
  call,          \* a helper method called on its own: its name, argument, result
  imageToTest,   \* const imageToTest / imageToScan
  pc,            \* the engine call the run is about to make
  i,             \* loop index of the probe in flight
  containerId,   \* const containerId of the probe in flight
  waited,        \* Date.now() - startTime inside waitForContainer
  times,         \* const times of the timing probe in flight
  stats,         \* const stats of measureMemoryUsage
  measurements,  \* const measurements of measureCPUUsage
  pingResults,   \* const pingResults of measureNetworkLatency
  writeTest,     \* const writeTest of measureDiskIO
  readTest,      \* const readTest of measureDiskIO
  performance,   \* const performance (the report under construction)
  scan,          \* const scan (the report of scanImage under construction)
  nodeVersion,   \* const nodeVersion of checkCommonVulnerabilities
  secrets,       \* const secrets of scanSecrets
  permissions,   \* const permissions of analyzePermissions
  tempDir,       \* file system: the directory .trouter-temp exists
  error,         \* the error testPerformance's catch clause holds
  outcome,       \* what the call gave its caller
  live,          \* engine: containers this run started and nobody removed
  handle,        \* observer: teardown attempts on the last started container
  stages,        \* observer: pipeline steps in the order they began
  acquireBuilds, \* observer: `docker build -t <tempTag>` commands issued
  released,      \* observer: cleanupTempImage invocations
  releaseFailed, \* observer: a `docker rmi -f` of cleanupTempImage failed
  rmiTags,       \* observer: tags named by `docker rmi -f`
  usedImages     \* observer: image tags the probes ran containers from

args == <<entry, imageTag, call>>
locals == <<containerId, waited, times, stats, measurements, pingResults,
            writeTest, readTest>>
scanLocals == <<nodeVersion, secrets, permissions, tempDir>>
observers == <<handle, stages, acquireBuilds, released, releaseFailed, rmiTags,
               usedImages>>
vars == <<entry, imageTag, call, imageToTest, pc, i, containerId, waited, times,
          stats, measurements, pingResults, writeTest, readTest, performance,
          scan, nodeVersion, secrets, permissions, tempDir, error, outcome,
          live, handle, stages, acquireBuilds, released, releaseFailed, rmiTags,
          usedImages>>

\* what the run knows of a container: the stop and remove attempts made on
\* it; for the startup probe how waitForContainer went (its outcome, the
\* last answers of the two inspects, whether it slept); for the network probe
\* the targets whose ping exited 0; for the disk probe what testDiskWrite and
\* testDiskRead returned
NotAsked == "<not asked>"
LaunchFailure == "Container failed to start"
ReadinessTimeout == "Container startup timeout"
NewHandle(id) ==
  [id |-> id, stops |-> 0, rms |-> 0, stopFailed |-> FALSE,
   wait |-> "none", status |-> NotAsked, health |-> NotAsked, slept |-> FALSE,
   responded |-> {}, write |-> NotAsked, read |-> NotAsked]
NoHandle == NewHandle(NoContainer)
NoStats == [tab |-> FALSE, current |-> [n |-> 0, sep |-> "", unit |-> ""],
            total |-> [n |-> 0, sep |-> "", unit |-> ""], perc |-> NaN]
Pending == [kind |-> "pending"]
NoCall == [method |-> "none"]
NoError == [message |-> <<>>]

\* the properties of the report evaluated so far: none but the image
EmptyPerformance == [image |-> Null]

EmptyScan == [image |-> Null]

\* the initial value of analyzePermissions' result
NoPermissions ==
  [runningAsRoot |-> FALSE, writableFileSystem |-> FALSE, sudoInstalled |-> FALSE,
   issues |-> <<>>, suggestions |-> <<>>]

Init ==
  /\ entry \in {"testPerformance", "scanImage"}
  /\ imageTag \in CallerTags
  /\ call = NoCall
  /\ imageToTest = Null
  /\ pc = "acquire"
  /\ i = 0
  /\ containerId = NoContainer
  /\ waited = 0
  /\ times = <<>>
  /\ stats = NoStats
  /\ measurements = <<>>
  /\ pingResults = <<>>
  /\ writeTest = DiskTestFailed
  /\ readTest = DiskTestFailed
  /\ performance = EmptyPerformance
  /\ scan = EmptyScan
  /\ nodeVersion = <<>>
  /\ secrets = <<>>
  /\ permissions = NoPermissions
  /\ tempDir = FALSE
  /\ error = NoError
  /\ outcome = Pending
  /\ live = 0
  /\ handle = NoHandle
  /\ stages = <<>>
  /\ acquireBuilds = 0
  /\ released = 0
  /\ releaseFailed = FALSE
  /\ rmiTags = {}
  /\ usedImages = {}

\* ------------------------------------------------------------------------
\* Engine commands and errors
\* ------------------------------------------------------------------------
\* error.message of a failed execSync: "Command failed: <command>\n<stderr>"
EngineError(cmd) == [message |-> <<"Command failed: " \o cmd>>]

\* an error raised by a statement of a probe that no handler of the probe
\* encloses (the console.log at its head)
InternalError == [message |-> <<"write EPIPE">>]

\* a step of the pipeline begins
Stage(s) ==
  stages' = IF stages # <<>> /\ stages[Len(stages)] = s
            THEN stages ELSE Append(stages, s)

\* ------------------------------------------------------------------------
\* testPerformance: the order of the probes
\* ------------------------------------------------------------------------
FirstPc(probe) ==
  CASE probe = "measureBuildTime" -> "bt.build"
    [] probe = "measureStartupTime" -> "st.run"
    [] probe = "measureMemoryUsage" -> "mem.run"
    [] probe = "measureCPUUsage" -> "cpu.run"
    [] probe = "measureNetworkLatency" -> "net.run"
    [] probe = "measureDiskIO" -> "disk.run"
    [] probe = "scanVulnerabilities" -> "vuln.scoutVersion"
    [] probe = "getImageSize" -> "size"
    [] probe = "analyzeLayers" -> "layers"
    [] probe = "scanSecrets" -> "sec.create"
    [] probe = "analyzePermissions" -> "perm.whoami"
    [] OTHER -> "recommend"

PerformanceProbesSwapped ==
  <<"measureBuildTime", "measureMemoryUsage", "measureStartupTime",
    "measureCPUUsage", "measureNetworkLatency", "measureDiskIO">>

PerformanceProbes ==
  <<"measureBuildTime", "measureStartupTime", "measureMemoryUsage",
    "measureCPUUsage", "measureNetworkLatency", "measureDiskIO">>

ScanProbes ==
  <<"scanVulnerabilities", "getImageSize", "analyzeLayers", "scanSecrets",
    "analyzePermissions">>

ProbeIndex(probes, probe) == CHOOSE k \in 1..Len(probes) : probes[k] = probe

\* where control goes when a probe of testPerformance returned
AfterProbe(probe) ==
  IF ProbeIndex(PerformanceProbes, probe) < Len(PerformanceProbes)
  THEN FirstPc(PerformanceProbes[ProbeIndex(PerformanceProbes, probe) + 1])
  ELSE "recommend"

\* where control goes when a probe of scanImage returned
AfterScanProbe(probe) ==
  IF ProbeIndex(ScanProbes, probe) < Len(ScanProbes)
  THEN FirstPc(ScanProbes[ProbeIndex(ScanProbes, probe) + 1])
  ELSE "assemble"

NeedsCleanupAlways(tag) == TRUE

\* `if (!imageTag)` of both exits of testPerformance and scanImage
NeedsCleanup(tag) == ~Truthy(tag)

ImageName == IF entry = "testPerformance" THEN PerfImageName ELSE ScanImageName

\* ------------------------------------------------------------------------
\* Control helpers
\* ------------------------------------------------------------------------
ResetLocals ==
  /\ containerId' = NoContainer
  /\ waited' = 0
  /\ times' = <<>>
  /\ stats' = NoStats
  /\ measurements' = <<>>
  /\ pingResults' = <<>>
  /\ writeTest' = DiskTestFailed
  /\ readTest' = DiskTestFailed

Field(probe) ==
  CASE probe = "measureBuildTime" -> "buildTime"
    [] probe = "measureStartupTime" -> "startupTime"
    [] probe = "measureMemoryUsage" -> "memoryUsage"
    [] probe = "measureCPUUsage" -> "cpuUsage"
    [] probe = "measureNetworkLatency" -> "networkLatency"
    [] OTHER -> "diskIO"

\* the probe returns value to testPerformance, which goes on to the next one
Return(probe, value) ==
  /\ performance' = (Field(probe) :> value) @@ performance
  /\ UNCHANGED scan
  /\ pc' = AfterProbe(probe)
  /\ i' = 0
  /\ ResetLocals

\* the probe goes on to its next engine call
Goto(p) == pc' = p /\ UNCHANGED <<performance, scan>>

Fixed ==
  UNCHANGED <<args, imageToTest, error, outcome, acquireBuilds, released,
              releaseFailed, scanLocals>>

\* the report the entry point returns
Report == IF entry = "testPerformance" THEN performance ELSE scan

\* `image: imageToTest` / `image: imageToScan` of the report
SetImage(tag) ==
  IF entry = "testPerformance"
  THEN performance' = [performance EXCEPT !.image = tag] /\ UNCHANGED scan
  ELSE scan' = [scan EXCEPT !.image = tag] /\ UNCHANGED performance

\* ------------------------------------------------------------------------
\* Image acquisition and release
\* ------------------------------------------------------------------------
SuppliedNever(tag) == FALSE

\* `imageTag || await this.buildTempImage()`: the caller's tag is used as is
Supplied(tag) == Truthy(tag)

BuildFailureBare(e) == [message |-> <<"Failed to build Docker image">>]

\* new Error(`Failed to build Docker image: ${error.message}`)
BuildFailure(e) == [message |-> <<"Failed to build Docker image: ">> \o e.message]

FirstStep ==
  IF entry = "testPerformance"
  THEN FirstPc(PerformanceProbes[1]) ELSE FirstPc(ScanProbes[1])

\* buildTempImage: `docker build -t <tempTag> .` at time t, engine says ok
buildTempImage(t, ok) ==
  /\ acquireBuilds' = acquireBuilds + 1
  /\ IF ok
     THEN /\ imageToTest' = TempTag(ImageName, t)
          /\ SetImage(TempTag(ImageName, t))
          /\ pc' = FirstStep
          /\ UNCHANGED outcome
     ELSE /\ outcome' = [kind |-> "threw",
                         error |-> BuildFailure(EngineError("docker build"))]
          /\ pc' = "done"
          /\ UNCHANGED <<imageToTest, performance, scan>>

\* const imageToTest = imageTag || await this.buildTempImage()
Acquire ==
  /\ pc = "acquire"
  /\ Stage("acquire")
  /\ IF Supplied(imageTag)
     THEN /\ imageToTest' = imageTag
          /\ SetImage(imageTag)
          /\ pc' = FirstStep
          /\ UNCHANGED <<outcome, acquireBuilds>>
     ELSE \E t \in 1..MaxNow, ok \in BOOLEAN : buildTempImage(t, ok)
  /\ UNCHANGED <<args, i, locals, scanLocals, error, live, handle, released,
                 releaseFailed, rmiTags, usedImages>>

\* cleanupTempImage: `docker rmi -f <imageTag>` is issued
cleanupTempImage(tag, ok) ==
  /\ released' = released + 1
  /\ releaseFailed' = (releaseFailed \/ ~ok)
  /\ rmiTags' = rmiTags \cup {tag}
  /\ Stage("release")

cleanupRaisesOnFailure(ok) == ~ok

\* cleanupTempImage's handler swallows the failure of the removal
cleanupRaises(ok) == FALSE

\* a statement of a probe outside the probe's own handler raises
ProbeRaises ==
  /\ pc \in {FirstPc(PerformanceProbes[k]) : k \in 1..Len(PerformanceProbes)}
           \cup {FirstPc("scanVulnerabilities"), FirstPc("scanSecrets"),
                 FirstPc("analyzePermissions")}
  /\ i = 0
  /\ error' = InternalError
  /\ pc' = "catch"
  /\ UNCHANGED <<args, imageToTest, i, locals, scanLocals, performance, scan,
                 outcome, live, observers>>

\* performance.recommendations = this.generateRecommendations(performance),
\* and the return when no cleanup is due
Recommend ==
  /\ pc = "recommend"
  /\ Stage("recommend")
  /\ performance' =
       ("recommendations" :> generateRecommendations(performance)) @@ performance
  /\ IF NeedsCleanup(imageTag)
     THEN pc' = "release" /\ UNCHANGED outcome
     ELSE pc' = "done" /\ outcome' = [kind |-> "returned", value |-> performance']
  /\ UNCHANGED <<args, imageToTest, i, locals, scanLocals, scan, error, live,
                 handle, acquireBuilds, released, releaseFailed, rmiTags,
                 usedImages>>

\* scanImage: the scan object is complete, and the return when no cleanup is due
Assemble ==
  /\ pc = "assemble"
  /\ Stage("assemble")
  /\ IF NeedsCleanup(imageTag)
     THEN pc' = "release" /\ UNCHANGED outcome
     ELSE pc' = "done" /\ outcome' = [kind |-> "returned", value |-> scan]
  /\ UNCHANGED <<args, imageToTest, i, locals, scanLocals, performance, scan,
                 error, live, handle, acquireBuilds, released, releaseFailed,
                 rmiTags, usedImages>>

\* the cleanup of the try block, then `return performance`
Release ==
  /\ pc = "release"
  /\ \E ok \in BOOLEAN :
       /\ cleanupTempImage(imageToTest, ok)
       /\ IF cleanupRaises(ok)
          THEN /\ pc' = "catch"
               /\ error' = EngineError("docker rmi")
               /\ UNCHANGED outcome
          ELSE /\ pc' = "done"
               /\ outcome' = [kind |-> "returned", value |-> Report]
               /\ UNCHANGED error
  /\ UNCHANGED <<args, imageToTest, i, locals, scanLocals, performance, scan,
                 live, handle, acquireBuilds, usedImages>>

\* the catch clause: cleanup when the image is the run's own, then rethrow
Catch ==
  /\ pc = "catch"
  /\ pc' = "done"
  /\ IF NeedsCleanup(imageTag)
     THEN \E ok \in BOOLEAN :
            /\ cleanupTempImage(imageToTest, ok)
            /\ outcome' = [kind |-> "threw",
                           error |-> IF cleanupRaises(ok)
                                     THEN EngineError("docker rmi") ELSE error]
     ELSE /\ outcome' = [kind |-> "threw", error |-> error]
          /\ UNCHANGED <<released, releaseFailed, rmiTags, stages>>
  /\ UNCHANGED <<args, imageToTest, i, locals, scanLocals, performance, scan,
                 error, live, handle, acquireBuilds, usedImages>>

\* ------------------------------------------------------------------------
\* measureBuildTime
\* ------------------------------------------------------------------------
\* the end of one iteration: the next one, or the aggregated result
BuildTimeNext(ts) ==
  IF i + 1 < BuildIterations
  THEN /\ i' = i + 1
       /\ times' = ts
       /\ Goto("bt.build")
       /\ UNCHANGED <<containerId, waited, stats, measurements, pingResults,
                      writeTest, readTest>>
  ELSE Return("measureBuildTime", TimingResult(ts))

\* `docker build --no-cache -t trouter-perf-test-build-test .`
measureBuildTime_build ==
  /\ pc = "bt.build"
  /\ Stage("measureBuildTime")
  /\ \E ok \in BOOLEAN :
       IF ok
       THEN /\ \E ms \in BuildElapsedMs : times' = Append(times, ms)
            /\ Goto("bt.rmi")
            /\ UNCHANGED <<i, containerId, waited, stats, measurements,
                           pingResults, writeTest, readTest>>
       ELSE BuildTimeNext(times)
  /\ Fixed
  /\ UNCHANGED <<live, handle, rmiTags, usedImages>>

\* `docker rmi -f trouter-perf-test-build-test`; its failure is only logged
measureBuildTime_rmi ==
  /\ pc = "bt.rmi"
  /\ Stage("measureBuildTime")
  /\ rmiTags' = rmiTags \cup {BuildTestTag}
  /\ BuildTimeNext(times)
  /\ Fixed
  /\ UNCHANGED <<live, handle, usedImages>>

\* ------------------------------------------------------------------------
\* measureStartupTime and waitForContainer
\* ------------------------------------------------------------------------
\* a variant in which an iteration without a sample ends the loop
StartupNextBreaks(ts) ==
  IF i + 1 < StartupIterations /\ Len(ts) = i + 1
  THEN /\ i' = i + 1
       /\ times' = ts
       /\ containerId' = NoContainer
       /\ waited' = 0
       /\ Goto("st.run")
       /\ UNCHANGED <<stats, measurements, pingResults, writeTest, readTest>>
  ELSE Return("measureStartupTime", TimingResult(ts))

StartupNext(ts) ==
  IF i + 1 < StartupIterations
  THEN /\ i' = i + 1
       /\ times' = ts
       /\ containerId' = NoContainer
       /\ waited' = 0
       /\ Goto("st.run")
       /\ UNCHANGED <<stats, measurements, pingResults, writeTest, readTest>>
  ELSE Return("measureStartupTime", TimingResult(ts))

\* `docker run -d --name trouter-perf-test-startup-test-<i> <imageTag>`
measureStartupTime_run ==
  /\ pc = "st.run"
  /\ Stage("measureStartupTime")
  /\ usedImages' = usedImages \cup {imageToTest}
  /\ \E ok \in BOOLEAN :
       IF ok
       THEN /\ live' = live + 1
            /\ handle' = [NewHandle(ContainerName("startup", i))
                            EXCEPT !.wait = "pending"]
            /\ containerId' = ContainerName("startup", i)
            /\ waited' = 0
            /\ Goto("st.wait")
            /\ UNCHANGED <<i, times, stats, measurements, pingResults,
                           writeTest, readTest>>
       ELSE StartupNext(times) /\ handle' = NoHandle /\ UNCHANGED live
  /\ Fixed
  /\ UNCHANGED rmiTags

InspectAnswers == {"fail", "created", "running", "exited"}
HealthAnswers == {"fail", "none", "starting", "healthy", "unhealthy"}

\* the handler of the loop body: the state inspect raised
InspectFailedIgnored(status) == FALSE

InspectFailed(status) == status = "fail"

ReadyHealthyOnly(status, health) ==
  status = "running" /\ health \in {"healthy"}

ReadyWhenRunning(status, health) == status = "running"

\* the body of waitForContainer's loop decides the container is ready
Ready(status, health) ==
  status = "running" /\ health \in {"fail", "none", "healthy"}

TimedOutNever(elapsed) == FALSE

\* the loop test `Date.now() - startTime < timeout` is false
TimedOut(elapsed) == elapsed >= WaitTimeoutMs

\* one iteration of waitForContainer's loop: the state inspect, the health
\* inspect when the state is running, the 500ms sleep, the loop test.  The
\* inspects are taken to cost no time, which allows the most iterations.
waitForContainer ==
  /\ pc = "st.wait"
  /\ Stage("measureStartupTime")
  /\ \E status \in InspectAnswers, health \in HealthAnswers :
       LET seen == [handle EXCEPT
                      !.status = status,
                      !.health = IF status = "running" THEN health ELSE NotAsked]
       IN
       IF InspectFailed(status)
       THEN /\ StartupNext(times)
            /\ handle' = [seen EXCEPT !.wait = LaunchFailure]
       ELSE IF Ready(status, health)
       THEN /\ \E ms \in StartupElapsedMs : times' = Append(times, ms)
            /\ waited' = 0
            /\ handle' = [seen EXCEPT !.wait = "ready"]
            /\ Goto("st.stop")
            /\ UNCHANGED <<i, containerId, stats, measurements, pingResults,
                           writeTest, readTest>>
       ELSE IF ~TimedOut(waited + PollMs)
       THEN /\ waited' = waited + PollMs
            /\ handle' = [seen EXCEPT !.slept = TRUE]
            /\ Goto("st.wait")
            /\ UNCHANGED <<i, containerId, times, stats, measurements,
                           pingResults, writeTest, readTest>>
       ELSE /\ StartupNext(times)
            /\ handle' = [seen EXCEPT !.slept = TRUE, !.wait = ReadinessTimeout]
  /\ Fixed
  /\ UNCHANGED <<live, rmiTags, usedImages>>

\* `docker stop <containerId>`
measureStartupTime_stop ==
  /\ pc = "st.stop"
  /\ Stage("measureStartupTime")
  /\ \E ok \in BOOLEAN :
       /\ handle' = [handle EXCEPT !.stops = @ + 1, !.stopFailed = ~ok]
       /\ IF ok
          THEN Goto("st.rm") /\ UNCHANGED <<i, locals>>
          ELSE StartupNext(times)
  /\ Fixed
  /\ UNCHANGED <<live, rmiTags, usedImages>>

\* `docker rm <containerId>`
measureStartupTime_rm ==
  /\ pc = "st.rm"
  /\ Stage("measureStartupTime")
  /\ \E ok \in BOOLEAN :
       /\ handle' = [handle EXCEPT !.rms = @ + 1]
       /\ live' = IF ok THEN live - 1 ELSE live
  /\ StartupNext(times)
  /\ Fixed
  /\ UNCHANGED <<rmiTags, usedImages>>

\* ------------------------------------------------------------------------
\* Container start and teardown shared by the four single-container probes
\* ------------------------------------------------------------------------
Failed(probe) ==
  CASE probe = "measureMemoryUsage" -> MemoryFailed
    [] probe = "measureCPUUsage" -> CpuFailed
    [] probe = "measureNetworkLatency" -> NetworkFailed
    [] OTHER -> DiskFailed

\* `docker run -d --name trouter-perf-test-<kind>-test <imageTag>`; on failure
\* the probe's handler returns the probe's failure value
RunContainer(probe, kind, next) ==
  /\ Stage(probe)
  /\ usedImages' = usedImages \cup {imageToTest}
  /\ \E ok \in BOOLEAN :
       IF ok
       THEN /\ live' = live + 1
            /\ handle' = NewHandle(ContainerName(kind, 0))
            /\ containerId' = ContainerName(kind, 0)
            /\ Goto(next)
            /\ UNCHANGED <<i, waited, times, stats, measurements, pingResults,
                           writeTest, readTest>>
       ELSE Return(probe, Failed(probe)) /\ handle' = NoHandle /\ UNCHANGED live
  /\ Fixed
  /\ UNCHANGED rmiTags

StopContainerUnhandled(probe, next) ==
  /\ Stage(probe)
  /\ \E ok \in BOOLEAN :
       /\ handle' = [handle EXCEPT !.stops = @ + 1, !.stopFailed = ~ok]
       /\ IF ok
          THEN Goto(next) /\ UNCHANGED error
          ELSE pc' = "catch" /\ error' = EngineError("docker stop")
                            /\ UNCHANGED <<performance, scan>>
  /\ UNCHANGED <<args, imageToTest, outcome, acquireBuilds, released,
                 releaseFailed, scanLocals, i, locals, live, rmiTags, usedImages>>

\* `docker stop <containerId>`; on failure the handler returns the failure value
StopContainer(probe, next) ==
  /\ Stage(probe)
  /\ \E ok \in BOOLEAN :
       /\ handle' = [handle EXCEPT !.stops = @ + 1, !.stopFailed = ~ok]
       /\ IF ok
          THEN Goto(next) /\ UNCHANGED <<i, locals>>
          ELSE Return(probe, Failed(probe))
  /\ Fixed
  /\ UNCHANGED <<live, rmiTags, usedImages>>

\* `docker rm <containerId>`, then the probe's return expression
RemoveContainer(probe, result) ==
  /\ Stage(probe)
  /\ \E ok \in BOOLEAN :
       /\ handle' = [handle EXCEPT !.rms = @ + 1]
       /\ live' = IF ok THEN live - 1 ELSE live
       /\ Return(probe, IF ok THEN result ELSE Failed(probe))
  /\ Fixed
  /\ UNCHANGED <<rmiTags, usedImages>>

\* ------------------------------------------------------------------------
\* measureMemoryUsage
\* ------------------------------------------------------------------------
measureMemoryUsage_run ==
  /\ pc = "mem.run"
  /\ RunContainer("measureMemoryUsage", "memory", "mem.stats")

\* `docker stats <containerId> --no-stream --format ...` after the 5s delay
measureMemoryUsage_stats ==
  /\ pc = "mem.stats"
  /\ Stage("measureMemoryUsage")
  /\ \E ok \in BOOLEAN, output \in MemStatsOutputs :
       IF ok
       THEN /\ stats' = output
            /\ Goto("mem.stop")
            /\ UNCHANGED <<i, containerId, waited, times, measurements,
                           pingResults, writeTest, readTest>>
       ELSE Return("measureMemoryUsage", MemoryFailed)
  /\ Fixed
  /\ UNCHANGED <<live, handle, rmiTags, usedImages>>

measureMemoryUsage_stop ==
  /\ pc = "mem.stop"
  /\ StopContainer("measureMemoryUsage", "mem.rm")

measureMemoryUsage_rm ==
  /\ pc = "mem.rm"
  /\ RemoveContainer("measureMemoryUsage", MemoryResult(stats))

\* ------------------------------------------------------------------------
\* measureCPUUsage
\* ------------------------------------------------------------------------
measureCPUUsage_run ==
  /\ pc = "cpu.run"
  /\ RunContainer("measureCPUUsage", "cpu", "cpu.stats")

\* one iteration of the sampling loop: `docker stats ... "{{.CPUPerc}}"`
measureCPUUsage_stats ==
  /\ pc = "cpu.stats"
  /\ Stage("measureCPUUsage")
  /\ \E ok \in BOOLEAN, output \in CpuStatsOutputs :
       IF ok
       THEN /\ measurements' = Append(measurements, output)
            /\ IF i + 1 < CpuSamples
               THEN i' = i + 1 /\ Goto("cpu.stats")
               ELSE i' = 0 /\ Goto("cpu.stop")
            /\ UNCHANGED <<containerId, waited, times, stats, pingResults,
                           writeTest, readTest>>
       ELSE Return("measureCPUUsage", CpuFailed)
  /\ Fixed
  /\ UNCHANGED <<live, handle, rmiTags, usedImages>>

measureCPUUsage_stop ==
  /\ pc = "cpu.stop"
  /\ StopContainer("measureCPUUsage", "cpu.rm")

measureCPUUsage_rm ==
  /\ pc = "cpu.rm"
  /\ RemoveContainer("measureCPUUsage", CpuResult(measurements))

\* ------------------------------------------------------------------------
\* measureNetworkLatency
\* ------------------------------------------------------------------------
measureNetworkLatency_run ==
  /\ pc = "net.run"
  /\ RunContainer("measureNetworkLatency", "network", "net.ping")

\* one iteration of the loop over targets: `docker exec <id> ping -c 3 <target>`
measureNetworkLatency_ping ==
  /\ pc = "net.ping"
  /\ Stage("measureNetworkLatency")
  /\ \E ok \in BOOLEAN, output \in PingOutputs :
       LET avgTime == extractPingAverage(output)
       IN /\ pingResults' =
               IF ok /\ avgTime # 0
               THEN Append(pingResults,
                           [target |-> PingTargets[i + 1], avgTime |-> avgTime])
               ELSE pingResults
          /\ handle' =
               IF ok
               THEN [handle EXCEPT !.responded = @ \cup {PingTargets[i + 1]}]
               ELSE handle
  /\ IF i + 1 < Len(PingTargets)
     THEN i' = i + 1 /\ Goto("net.ping")
     ELSE i' = 0 /\ Goto("net.stop")
  /\ Fixed
  /\ UNCHANGED <<containerId, waited, times, stats, measurements, writeTest,
                 readTest, live, rmiTags, usedImages>>

measureNetworkLatency_stop ==
  /\ pc = "net.stop"
  /\ StopContainer("measureNetworkLatency", "net.rm")

measureNetworkLatency_rm ==
  /\ pc = "net.rm"
  /\ RemoveContainer("measureNetworkLatency", NetworkResult(pingResults))

\* ------------------------------------------------------------------------
\* measureDiskIO, testDiskWrite, testDiskRead
\* ------------------------------------------------------------------------
measureDiskIO_run ==
  /\ pc = "disk.run"
  /\ RunContainer("measureDiskIO", "disk", "dw.dd")

\* an exec of the disk tests that only decides where the test goes next
DiskExec(test, next, failTo) ==
  /\ Stage("measureDiskIO")
  /\ \E ok \in BOOLEAN :
       IF ok
       THEN Goto(next) /\ UNCHANGED handle
       ELSE Goto(failTo) /\ handle' = [handle EXCEPT ![test] = "Failed"]
  /\ Fixed
  /\ UNCHANGED <<i, locals, live, rmiTags, usedImages>>

\* testDiskWrite: `dd if=/dev/zero of=/tmp/test_write bs=1M count=100`
testDiskWrite_dd ==
  /\ pc = "dw.dd"
  /\ DiskExec("write", "dw.rm", "dr.create")

\* testDiskWrite: `rm -f /tmp/test_write`, then the result
testDiskWrite_rm ==
  /\ pc = "dw.rm"
  /\ Stage("measureDiskIO")
  /\ \E ok \in BOOLEAN, ms \in DiskWriteMs :
       writeTest' = IF ok THEN DiskTestOk(100, ms) ELSE DiskTestFailed
  /\ handle' = [handle EXCEPT !.write = writeTest'.status]
  /\ Goto("dr.create")
  /\ Fixed
  /\ UNCHANGED <<i, containerId, waited, times, stats, measurements,
                 pingResults, readTest, live, rmiTags, usedImages>>

\* testDiskRead: `dd if=/dev/zero of=/tmp/test_read bs=1M count=50`
testDiskRead_create ==
  /\ pc = "dr.create"
  /\ DiskExec("read", "dr.dd", "disk.stop")

\* testDiskRead: `dd if=/tmp/test_read of=/dev/null bs=1M`
testDiskRead_dd ==
  /\ pc = "dr.dd"
  /\ DiskExec("read", "dr.rm", "disk.stop")

\* testDiskRead: `rm -f /tmp/test_read`, then the result
testDiskRead_rm ==
  /\ pc = "dr.rm"
  /\ Stage("measureDiskIO")
  /\ \E ok \in BOOLEAN, ms \in DiskReadMs :
       readTest' = IF ok THEN DiskTestOk(50, ms) ELSE DiskTestFailed
  /\ handle' = [handle EXCEPT !.read = readTest'.status]
  /\ Goto("disk.stop")
  /\ Fixed
  /\ UNCHANGED <<i, containerId, waited, times, stats, measurements,
                 pingResults, writeTest, live, rmiTags, usedImages>>

measureDiskIO_stop ==
  /\ pc = "disk.stop"
  /\ StopContainer("measureDiskIO", "disk.rm")

measureDiskIO_rm ==
  /\ pc = "disk.rm"
  /\ RemoveContainer("measureDiskIO", DiskResult(writeTest, readTest))

\* ------------------------------------------------------------------------
\* scanImage: control helpers
\* ------------------------------------------------------------------------
ScanField(probe) ==
  CASE probe = "scanVulnerabilities" -> "vulnerabilities"
    [] probe = "getImageSize" -> "size"
    [] probe = "analyzeLayers" -> "layers"
    [] probe = "scanSecrets" -> "secrets"
    [] OTHER -> "permissions"

\* the probe returns value to scanImage, which goes on to the next one
ScanReturn(probe, value) ==
  /\ scan' = (ScanField(probe) :> value) @@ scan
  /\ pc' = AfterScanProbe(probe)

ScanGoto(p) == pc' = p /\ UNCHANGED scan

ScanFixed ==
  UNCHANGED <<args, imageToTest, error, outcome, acquireBuilds, released,
              releaseFailed, i, locals, performance, live, rmiTags>>

\* the command names the image under scan
UsesImage == usedImages' = usedImages \cup {imageToTest}

\* ------------------------------------------------------------------------
\* scanVulnerabilities
\* ------------------------------------------------------------------------
\* hasDockerScout: `docker scout version`
hasDockerScout ==
  /\ pc = "vuln.scoutVersion"
  /\ Stage("scanVulnerabilities")
  /\ \E ok \in BOOLEAN :
       ScanGoto(IF ok THEN "vuln.scout" ELSE "vuln.trivyVersion")
  /\ ScanFixed
  /\ UNCHANGED <<scanLocals, handle, usedImages>>

\* scanWithDockerScout: `docker scout cves --format json <tag>`; its error
\* reaches the handler of scanVulnerabilities, which runs the basic scan
scanWithDockerScout ==
  /\ pc = "vuln.scout"
  /\ Stage("scanVulnerabilities")
  /\ UsesImage
  /\ \E ok \in BOOLEAN, json \in BOOLEAN :
       IF ok /\ json
       THEN ScanReturn("scanVulnerabilities", parseVulnerabilityData(json))
       ELSE ScanGoto("vuln.os")
  /\ ScanFixed
  /\ UNCHANGED <<scanLocals, handle>>

\* scanWithTrivy: `trivy version`
scanWithTrivy_version ==
  /\ pc = "vuln.trivyVersion"
  /\ Stage("scanVulnerabilities")
  /\ \E ok \in BOOLEAN :
       ScanGoto(IF ok THEN "vuln.trivy" ELSE "vuln.os")
  /\ ScanFixed
  /\ UNCHANGED <<scanLocals, handle, usedImages>>

\* scanWithTrivy: `trivy image --format json --quiet <tag>`; null on failure
scanWithTrivy_image ==
  /\ pc = "vuln.trivy"
  /\ Stage("scanVulnerabilities")
  /\ UsesImage
  /\ \E ok \in BOOLEAN, output \in TrivyOutputs :
       IF ok /\ output.json
       THEN ScanReturn("scanVulnerabilities", parseTrivyResults(output))
       ELSE ScanGoto("vuln.os")
  /\ ScanFixed
  /\ UNCHANGED <<scanLocals, handle>>

\* basicVulnerabilityScan, getImageOS: `docker run --rm <tag> cat /etc/os-release`
getImageOS ==
  /\ pc = "vuln.os"
  /\ Stage("scanVulnerabilities")
  /\ UsesImage
  /\ ScanGoto("vuln.node")
  /\ ScanFixed
  /\ UNCHANGED <<scanLocals, handle>>

\* getNodeVersion: `docker run --rm <tag> node --version`; null on failure
getNodeVersion ==
  /\ pc = "vuln.node"
  /\ Stage("scanVulnerabilities")
  /\ UsesImage
  /\ \E ok \in BOOLEAN, output \in NodeVersionOutputs :
       nodeVersion' = IF ok THEN output ELSE <<>>
  /\ ScanGoto("vuln.npm")
  /\ ScanFixed
  /\ UNCHANGED <<secrets, permissions, tempDir, handle>>

\* getInstalledPackages: `docker run --rm <tag> npm list --depth=0 --json`,
\* then the rest of checkCommonVulnerabilities and basicVulnerabilityScan
getInstalledPackages ==
  /\ pc = "vuln.npm"
  /\ Stage("scanVulnerabilities")
  /\ UsesImage
  /\ \E ok \in BOOLEAN, output \in NpmListOutputs :
       LET packages == IF ok THEN output ELSE <<>>
       IN ScanReturn("scanVulnerabilities",
                     basicVulnerabilityScan(nodeVersion, packages))
  /\ nodeVersion' = <<>>
  /\ ScanFixed
  /\ UNCHANGED <<secrets, permissions, tempDir, handle>>

\* ------------------------------------------------------------------------
\* getImageSize, analyzeLayers
\* ------------------------------------------------------------------------
\* `docker images <tag> --format "{{.Size}}"`
getImageSize ==
  /\ pc = "size"
  /\ Stage("getImageSize")
  /\ UsesImage
  /\ \E ok \in BOOLEAN, output \in ImageSizeOutputs :
       ScanReturn("getImageSize", IF ok THEN output ELSE "Unknown")
  /\ ScanFixed
  /\ UNCHANGED <<scanLocals, handle>>

\* `docker history <tag> --format "{{.CreatedBy}}\t{{.Size}}" --no-trunc`
analyzeLayers ==
  /\ pc = "layers"
  /\ Stage("analyzeLayers")
  /\ UsesImage
  /\ \E ok \in BOOLEAN, output \in HistoryOutputs :
       ScanReturn("analyzeLayers", IF ok THEN LayersResult(output) ELSE NoLayers)
  /\ ScanFixed
  /\ UNCHANGED <<scanLocals, handle>>

\* ------------------------------------------------------------------------
\* scanSecrets
\* ------------------------------------------------------------------------
\* `docker create <tag>`
scanSecrets_create ==
  /\ pc = "sec.create"
  /\ Stage("scanSecrets")
  /\ UsesImage
  /\ \E ok \in BOOLEAN :
       IF ok
       THEN /\ handle' = NewHandle("created")
            /\ ScanGoto("sec.cp")
       ELSE /\ handle' = NoHandle
            /\ ScanReturn("scanSecrets", <<>>)
  /\ ScanFixed
  /\ UNCHANGED scanLocals

\* the inner try block: fs.ensureDir, `docker cp <id>:/app <tempDir>`,
\* fs.pathExists, scanDirectoryForSecrets, fs.remove; the first of them that
\* fails ends the block
scanSecrets_cp ==
  /\ pc = "sec.cp"
  /\ Stage("scanSecrets")
  /\ \E dirOk \in BOOLEAN, ok \in BOOLEAN, tree \in AppTrees, removeOk \in BOOLEAN :
       IF ~dirOk
       THEN UNCHANGED <<tempDir, secrets>>
       ELSE IF ~ok
       THEN tempDir' = TRUE /\ UNCHANGED secrets
       ELSE IF tree.exists /\ ~tree.readable
       THEN tempDir' = TRUE /\ UNCHANGED secrets
       ELSE LET scanned == IF tree.exists THEN scanDirectoryForSecrets(tree.entries)
                           ELSE [secrets |-> <<>>, threw |-> FALSE]
            IN /\ secrets' = scanned.secrets
               /\ tempDir' = (scanned.threw \/ ~removeOk)
  /\ ScanGoto("sec.rm")
  /\ ScanFixed
  /\ UNCHANGED <<nodeVersion, permissions, handle, usedImages>>

RemoveCreatedNever == UNCHANGED handle

\* `docker rm <containerId>` of the finally clause is issued
RemoveCreated == handle' = [handle EXCEPT !.rms = @ + 1]

\* the finally clause: `docker rm <id>`; the outer handler swallows its failure
scanSecrets_rm ==
  /\ pc = "sec.rm"
  /\ Stage("scanSecrets")
  /\ RemoveCreated
  /\ ScanReturn("scanSecrets", secrets)
  /\ secrets' = <<>>
  /\ ScanFixed
  /\ UNCHANGED <<nodeVersion, permissions, tempDir, usedImages>>

\* ------------------------------------------------------------------------
\* analyzePermissions
\* ------------------------------------------------------------------------
\* `docker run --rm <tag> whoami`
analyzePermissions_whoami ==
  /\ pc = "perm.whoami"
  /\ Stage("analyzePermissions")
  /\ UsesImage
  /\ \E ok \in BOOLEAN, output \in {"root", "node"} :
       IF ok
       THEN /\ permissions' =
                 IF output = "root"
                 THEN [permissions EXCEPT
                         !.runningAsRoot = TRUE,
                         !.issues = Append(@, "Container is running as root user"),
                         !.suggestions = Append(@, "Create and use a non-root user")]
                 ELSE permissions
            /\ ScanGoto("perm.touch")
       ELSE /\ ScanReturn("analyzePermissions", permissions)
            /\ permissions' = NoPermissions
  /\ ScanFixed
  /\ UNCHANGED <<nodeVersion, secrets, tempDir, handle>>

\* `docker run --rm <tag> touch /tmp/test ... && echo "writable" || ...`
analyzePermissions_touch ==
  /\ pc = "perm.touch"
  /\ Stage("analyzePermissions")
  /\ UsesImage
  /\ \E ok \in BOOLEAN, output \in {"writable", "not-writable"} :
       IF ok
       THEN /\ permissions' =
                 IF output = "writable"
                 THEN [permissions EXCEPT
                         !.writableFileSystem = TRUE,
                         !.suggestions = Append(@,
                            "Consider using read-only filesystem where possible")]
                 ELSE permissions
            /\ ScanGoto("perm.sudo")
       ELSE /\ ScanReturn("analyzePermissions", permissions)
            /\ permissions' = NoPermissions
  /\ ScanFixed
  /\ UNCHANGED <<nodeVersion, secrets, tempDir, handle>>

\* a variant that sets the flag without listing the issue
SudoFoundUnlisted(p) ==
  [p EXCEPT !.sudoInstalled = TRUE,
            !.suggestions = Append(@, "Remove sudo from production containers")]

\* `which sudo` succeeded
SudoFound(p) ==
  [p EXCEPT !.sudoInstalled = TRUE,
            !.issues = Append(@, "sudo is installed in container"),
            !.suggestions = Append(@, "Remove sudo from production containers")]

\* `docker run --rm <tag> which sudo`, in its own try block: its catch sets
\* sudoInstalled to false, which it already is
analyzePermissions_sudo ==
  /\ pc = "perm.sudo"
  /\ Stage("analyzePermissions")
  /\ UsesImage
  /\ \E ok \in BOOLEAN :
       ScanReturn("analyzePermissions",
                  IF ok THEN SudoFound(permissions) ELSE permissions)
  /\ permissions' = NoPermissions
  /\ ScanFixed
  /\ UNCHANGED <<nodeVersion, secrets, tempDir, handle>>

Next ==
  \/ Acquire
  \/ ProbeRaises
  \/ Recommend
  \/ Assemble
  \/ Release
  \/ Catch
  \/ measureBuildTime_build
  \/ measureBuildTime_rmi
  \/ measureStartupTime_run
  \/ waitForContainer
  \/ measureStartupTime_stop
  \/ measureStartupTime_rm
  \/ measureMemoryUsage_run
  \/ measureMemoryUsage_stats
  \/ measureMemoryUsage_stop
  \/ measureMemoryUsage_rm
  \/ measureCPUUsage_run
  \/ measureCPUUsage_stats
  \/ measureCPUUsage_stop
  \/ measureCPUUsage_rm
  \/ measureNetworkLatency_run
  \/ measureNetworkLatency_ping
  \/ measureNetworkLatency_stop
  \/ measureNetworkLatency_rm
  \/ measureDiskIO_run
  \/ testDiskWrite_dd
  \/ testDiskWrite_rm
  \/ testDiskRead_create
  \/ testDiskRead_dd
  \/ testDiskRead_rm
  \/ measureDiskIO_stop
  \/ measureDiskIO_rm
  \/ hasDockerScout
  \/ scanWithDockerScout
  \/ scanWithTrivy_version
  \/ scanWithTrivy_image
  \/ getImageOS
  \/ getNodeVersion
  \/ getInstalledPackages
  \/ getImageSize
  \/ analyzeLayers
  \/ scanSecrets_create
  \/ scanSecrets_cp
  \/ scanSecrets_rm
  \/ analyzePermissions_whoami
  \/ analyzePermissions_touch
  \/ analyzePermissions_sudo

Spec == Init /\ [][Next]_vars

\* ------------------------------------------------------------------------
\* The ends of the two timing probes and the recommendation step, entered
\* with samples and reports drawn from bounded sets
\* ------------------------------------------------------------------------
\* durations (ms) of the iterations that produced a sample
SampleMs == {1, 2, 12000, 13200, 14500}

SeqsBetween(S, m, n) == UNION {[1..k -> S] : k \in m..n}

\* averages around the thresholds of generateRecommendations
BuildAverages == {0, 60000, 60001, 65000}
StartupAverages == {0, 10000, 10001}
MemoryPercentages == {NaN, 0, 8000, 8001}
\* the memory result with a percentage: the failure value has 0
MemoryWith(m) ==
  IF m = 0 THEN MemoryFailed
  ELSE MemoryResult([tab |-> TRUE,
                     current |-> [n |-> 12800, sep |-> "", unit |-> "MiB"],
                     total |-> [n |-> 200, sep |-> "", unit |-> "GiB"],
                     perc |-> m])
CpuAverages == {5000, 5001}
CpuResults == {CpuFailed} \cup {CpuResult(<<c>>) : c \in CpuAverages}
NetworkResults ==
  { NetworkFailed,
    NetworkResult(<<[target |-> "8.8.8.8", avgTime |-> 10000]>>),
    NetworkResult(<<[target |-> "8.8.8.8", avgTime |-> 10001]>>) }
\* both directions failed, both fast, both slow
DiskResults ==
  { DiskFailed,
    DiskResult(DiskTestOk(100, 800), DiskTestOk(50, 250)),
    DiskResult(DiskTestOk(100, 10000), DiskTestOk(50, 5000)) }

\* the report as testPerformance has it before generateRecommendations
Reports ==
  { [image |-> "myapp:latest",
     buildTime |-> TimingResult(IF b = 0 THEN <<>> ELSE <<b>>),
     startupTime |-> TimingResult(IF s = 0 THEN <<>> ELSE <<s>>),
     memoryUsage |-> MemoryWith(m),
     cpuUsage |-> c,
     networkLatency |-> n,
     diskIO |-> d] :
    b \in BuildAverages, s \in StartupAverages, m \in MemoryPercentages,
    c \in CpuResults, n \in NetworkResults, d \in DiskResults }

\* the last iteration of measureBuildTime, before its build or its removal
AtBuildTimeEnd ==
  /\ i = BuildIterations - 1
  /\ \/ pc = "bt.build" /\ times \in SeqsBetween(SampleMs, 0, BuildIterations - 1)
     \/ pc = "bt.rmi" /\ times \in SeqsBetween(SampleMs, 1, BuildIterations)
  /\ performance = [image |-> "myapp:latest"]
  /\ stages = <<"acquire", "measureBuildTime">>
  /\ handle = NoHandle
  /\ containerId = NoContainer
  /\ live = 0
  /\ usedImages = {}

\* the last iteration of measureStartupTime, before its run, stop or remove
AtStartupTimeEnd ==
  /\ i = StartupIterations - 1
  /\ performance = [image |-> "myapp:latest", buildTime |-> TimingResult(<<>>)]
  /\ stages = <<"acquire", "measureBuildTime", "measureStartupTime">>
  /\ usedImages = {"myapp:latest"}
  /\ \/ /\ pc = "st.run"
        /\ times \in SeqsBetween(SampleMs, 0, 1)
        /\ handle = NoHandle
        /\ containerId = NoContainer
        /\ live = 0
     \/ /\ pc \in {"st.stop", "st.rm"}
        /\ times \in SeqsBetween(SampleMs, 1, StartupIterations)
        /\ handle = [NewHandle(ContainerName("startup", i)) EXCEPT
                       !.wait = "ready", !.status = "running", !.health = "none",
                       !.stops = IF pc = "st.rm" THEN 1 ELSE 0]
        /\ containerId = ContainerName("startup", i)
        /\ live = 1

AtRecommend ==
  /\ pc = "recommend"
  /\ i = 0
  /\ times = <<>>
  /\ performance \in Reports
  /\ stages = <<"acquire", "measureBuildTime", "measureStartupTime",
                "measureMemoryUsage", "measureCPUUsage",
                "measureNetworkLatency", "measureDiskIO">>
  /\ handle = NoHandle
  /\ containerId = NoContainer
  /\ live = 0
  /\ usedImages = {"myapp:latest"}

AggregationInit ==
  /\ entry = "testPerformance"
  /\ call = NoCall
  /\ imageTag = "myapp:latest"
  /\ imageToTest = "myapp:latest"
  /\ waited = 0
  /\ stats = NoStats
  /\ measurements = <<>>
  /\ pingResults = <<>>
  /\ writeTest = DiskTestFailed
  /\ readTest = DiskTestFailed
  /\ scan = EmptyScan
  /\ nodeVersion = <<>>
  /\ secrets = <<>>
  /\ permissions = NoPermissions
  /\ tempDir = FALSE
  /\ error = NoError
  /\ outcome = Pending
  /\ acquireBuilds = 0
  /\ released = 0
  /\ releaseFailed = FALSE
  /\ rmiTags = {}
  /\ (AtBuildTimeEnd \/ AtStartupTimeEnd \/ AtRecommend)

AggregationNext ==
  \/ measureBuildTime_build
  \/ measureBuildTime_rmi
  \/ measureStartupTime_run
  \/ measureStartupTime_stop
  \/ measureStartupTime_rm
  \/ Recommend

AggregationSpec == AggregationInit /\ [][AggregationNext]_vars

\* ------------------------------------------------------------------------
\* Properties
\* ------------------------------------------------------------------------
PerformanceFields ==
  {"image", "buildTime", "startupTime", "memoryUsage", "cpuUsage",
   "networkLatency", "diskIO", "recommendations"}
ScanFields ==
  {"image", "vulnerabilities", "size", "layers", "secrets", "permissions"}

\* the image under test was built by the run / was supplied by the caller
OwnImage == imageToTest # Null /\ imageToTest # imageTag
CallerImage == imageTag \notin {Null, ""}

\* positions between two containers of testPerformance: the next iteration
\* of the startup probe, or the first call after a probe returned
ProbeBoundaries ==
  {"st.run", "mem.run", "cpu.run", "net.run", "disk.run", "recommend"}

\* C1: in testPerformance and scanImage the forced removal of the image under
\* test is issued by the run exactly once when the run built the image, also
\* when a probe raised, and never when the caller supplied the tag.
C1_ReleaseOncePerOwnedImage ==
  /\ released <= 1
  /\ (pc = "done" /\ OwnImage) => released = 1
  /\ CallerImage => released = 0

\* a probe raised in a run that built its own image, and the image was released
C1_Witness ==
  pc = "done" /\ OwnImage /\ error = InternalError /\ released = 1

\* C2: every container a performance probe started has had exactly one stop
\* attempt and exactly one remove attempt when the probe (or the iteration of
\* the startup probe) that started it is over.
C2_StopAndRemoveOncePerContainer ==
  (entry = "testPerformance" /\ pc \in ProbeBoundaries /\ handle.id # NoContainer)
    => (handle.stops = 1 /\ handle.rms = 1)

\* C3: once the image is acquired, no failure of an engine command inside a
\* probe reaches the caller: the run returns a report with every field, and
\* the only errors that are ever thrown are the acquisition failure and an
\* error raised outside the probes' handlers.
C3_ProbeFailuresDoNotPropagate ==
  /\ outcome.kind = "threw" =>
       outcome.error \in {BuildFailure(EngineError("docker build")), InternalError}
  /\ (pc = "done" /\ imageToTest # Null /\ error = NoError) =>
       /\ outcome.kind = "returned"
       /\ DOMAIN outcome.value =
            IF entry = "testPerformance" THEN PerformanceFields ELSE ScanFields

\* a run whose stop commands failed (containers left behind) and whose probes
\* reported their failure values still returned its report
C3_Witness ==
  /\ pc = "done"
  /\ entry = "testPerformance"
  /\ outcome.kind = "returned"
  /\ live > 0
  /\ handle.stopFailed
  /\ performance.startupTime.average = 0
  /\ performance.memoryUsage.efficiency = "Unknown"
  /\ performance.cpuUsage.samples = 0
  /\ performance.networkLatency.status = "Failed"
  /\ performance.diskIO.overall = "Unknown"

\* C4: no forced image removal ever names the tag the caller supplied.
C4_CallerImageNeverRemoved ==
  CallerImage => imageTag \notin rmiTags

\* C5: when the stop of a container failed, its remove has been attempted by
\* the time the probe (or iteration) is over.
C5_RemoveAttemptedAfterFailedStop ==
  (entry = "testPerformance" /\ pc \in ProbeBoundaries /\ handle.stopFailed)
    => handle.rms = 1

\* C6: at most one container started by the run is present at any time.
C6_AtMostOneLiveContainer == live <= 1

\* C7: cleanupTempImage never raises: after a failed removal the run is over
\* with the report it had assembled, or with the error it was propagating.
C7_CleanupNeverRaises ==
  releaseFailed =>
    /\ pc = "done"
    /\ error = NoError => outcome = [kind |-> "returned", value |-> Report]
    /\ error # NoError => outcome = [kind |-> "threw", error |-> InternalError]

\* the removal failed while the error of a probe was being propagated
C7_Witness ==
  releaseFailed /\ outcome.kind = "threw" /\ outcome.error = InternalError

\* C8: when no tag is supplied and the acquisition build fails, the run throws
\* an error whose message includes the engine's error text, and it has started
\* no probe and issued no image removal.
C8_BuildFailureIsFatal ==
  (acquireBuilds = 1 /\ imageToTest = Null) =>
    /\ pc = "done"
    /\ outcome.kind = "threw"
    /\ \E k \in 1..Len(outcome.error.message) :
         outcome.error.message[k] = EngineError("docker build").message[1]
    /\ stages = <<"acquire">>
    /\ rmiTags = {} /\ released = 0
    /\ usedImages = {} /\ live = 0

C8_Witness ==
  ~CallerImage /\ acquireBuilds = 1 /\ imageToTest = Null /\ outcome.kind = "threw"

\* C9: with a tag supplied by the caller, acquisition issues no build, every
\* command of a probe that names an image names that tag, and the returned
\* report's image is that tag.
C9_SuppliedTagUsedAsIs ==
  CallerImage =>
    /\ acquireBuilds = 0
    /\ usedImages \subseteq {imageTag}
    /\ outcome.kind = "returned" => outcome.value.image = imageTag

C9_Witness ==
  /\ CallerImage
  /\ entry = "scanImage"
  /\ outcome.kind = "returned"
  /\ usedImages = {imageTag}
  /\ scan.image = imageTag

PerformanceOrder ==
  <<"acquire", "measureBuildTime", "measureStartupTime", "measureMemoryUsage",
    "measureCPUUsage", "measureNetworkLatency", "measureDiskIO", "recommend",
    "release">>

\* the report property a step of testPerformance fills
StepField(step) ==
  CASE step = "measureBuildTime" -> "buildTime"
    [] step = "measureStartupTime" -> "startupTime"
    [] step = "measureMemoryUsage" -> "memoryUsage"
    [] step = "measureCPUUsage" -> "cpuUsage"
    [] step = "measureNetworkLatency" -> "networkLatency"
    [] step = "measureDiskIO" -> "diskIO"
    [] step = "recommend" -> "recommendations"
    [] OTHER -> "image"

\* C10: the steps of a performance run begin in the fixed order acquire,
\* build time, startup, memory, CPU, network, disk, recommendations, release;
\* a step begins only after the one before it has delivered its result, and
\* the release is the last step: nothing is issued after it.
C10_FixedSequentialOrder ==
  entry = "testPerformance" =>
    /\ \A k \in 1..Len(stages) :
         \/ stages[k] = PerformanceOrder[k]
         \/ stages[k] = "release" /\ k = Len(stages)
    /\ \A k \in 2..Len(stages) :
         stages[k] # "release" => StepField(stages[k - 1]) \in DOMAIN performance
    /\ (stages # <<>> /\ stages[Len(stages)] = "release") => pc = "done"

C10_Witness ==
  pc = "done" /\ entry = "testPerformance" /\ stages = PerformanceOrder

\* C11: waitForContainer terminates: while it polls, the elapsed time is below
\* the timeout and every further iteration adds at least the sleep to it; it
\* ends ready, with the launch failure or with the timeout failure, and a
\* container that is still not ready when the timeout has elapsed gets the
\* timeout failure.
C11_WaitTerminates ==
  [][pc = "st.wait" =>
       /\ handle.wait = "pending"
       /\ waited < WaitTimeoutMs
       /\ pc' = "st.wait" =>
            (waited' >= waited + PollMs /\ handle'.wait = "pending")
       /\ pc' # "st.wait" =>
            handle'.wait \in {"ready", LaunchFailure, ReadinessTimeout}
       /\ handle'.wait = ReadinessTimeout => waited + PollMs >= WaitTimeoutMs
       /\ ( /\ waited + PollMs >= WaitTimeoutMs
            /\ \/ handle'.status \in {"created", "exited"}
               \/ handle'.health \in {"starting", "unhealthy"} )
            => handle'.wait = ReadinessTimeout
    ]_vars

\* a container that stayed running and unhealthy until the timeout elapsed
C11_Witness ==
  /\ handle.wait = ReadinessTimeout
  /\ handle.status = "running"
  /\ handle.health = "unhealthy"

\* C12: a state inspect that fails ends the wait at once with the launch
\* failure: the wait is over (no further inspect), and its outcome is not the
\* timeout; the launch failure has no other cause.
C12_InspectFailureIsLaunchFailure ==
  /\ handle.status = "fail" => (handle.wait = LaunchFailure /\ pc # "st.wait")
  /\ handle.wait = LaunchFailure => handle.status = "fail"

\* the inspect failed in a later poll iteration, after a sleep
C12_Witness ==
  handle.wait = LaunchFailure /\ handle.status = "fail" /\ handle.slept

\* C13: when the first state inspect answers running and the health inspect
\* fails or answers none, the wait returns ready in that iteration, without a
\* sleep.
C13_RunningWithoutHealthCheckIsReady ==
  [][( /\ pc = "st.wait" /\ waited = 0 /\ ~handle.slept
       /\ handle'.status = "running"
       /\ handle'.health \in {"fail", "none"} )
       => ( /\ handle'.wait = "ready"
            /\ ~handle'.slept
            /\ pc' = "st.stop"
            /\ Len(times') = Len(times) + 1 )
    ]_vars

C13_Witness ==
  /\ handle.wait = "ready"
  /\ ~handle.slept
  /\ handle.status = "running"
  /\ handle.health = "fail"

\* a timing probe returns its result from the samples in `times`
Returns(field) ==
  field \notin DOMAIN performance /\ field \in DOMAIN performance'

RECURSIVE Total(_, _)
Total(s, k) == IF k = 0 THEN 0 ELSE s[k] + Total(s, k - 1)

\* r is the aggregate of the samples s: their count, the smallest, the
\* largest, and the mean rounded to the nearest integer (halves upwards)
Aggregates(r, s) ==
  LET k == Len(s)
  IN /\ "samples" \in DOMAIN r
     /\ r.samples = k
     /\ \E j \in 1..k : r.min = s[j]
     /\ \A j \in 1..k : r.min <= s[j]
     /\ \E j \in 1..k : r.max = s[j]
     /\ \A j \in 1..k : r.max >= s[j]
     /\ r.min <= r.average /\ r.average <= r.max
     /\ 2 * k * r.average <= 2 * Total(s, k) + k
     /\ 2 * Total(s, k) + k < 2 * k * (r.average + 1)

Reordered(s, q) == [j \in 1..Len(s) |-> s[q[j]]]

\* C14: when the build-time or the startup-time probe returns with k >= 1
\* samples, its result has samples = k, min and max the smallest and largest
\* sample, min <= average <= max, and average the rounded mean; the result is
\* the aggregate of every reordering of the samples; [12000, 14500, 13200]
\* gives 13233, 12000, 14500, 3.
C14_TimingAggregate ==
  [][\A field \in {"buildTime", "startupTime"} :
       (Returns(field) /\ Len(times) >= 1) =>
         LET r == performance'[field]
         IN /\ Aggregates(r, times)
            /\ \A q \in Permutations(1..Len(times)) :
                 Aggregates(r, Reordered(times, q))
            /\ times = <<12000, 14500, 13200>> =>
                 ( r.average = 13233 /\ r.min = 12000 /\ r.max = 14500
                   /\ r.samples = 3 )
    ]_vars

\* the build-time probe returned the aggregate of the example
C14_Witness ==
  /\ "buildTime" \in DOMAIN performance
  /\ "startupTime" \notin DOMAIN performance
  /\ performance.buildTime =
       [average |-> 13233, min |-> 12000, max |-> 14500, unit |-> "ms",
        samples |-> 3]

\* C15: when the build-time or the startup-time probe returns without any
\* sample, its result has average = min = max = 0 and a sample count of 0.
C15_NoSampleIsZeroRecord ==
  [][\A field \in {"buildTime", "startupTime"} :
       (Returns(field) /\ Len(times) = 0) =>
         LET r == performance'[field]
         IN /\ r.average = 0 /\ r.min = 0 /\ r.max = 0
            /\ "samples" \in DOMAIN r
            /\ r.samples = 0
    ]_vars

RuleOrder == <<"Build", "Startup", "Memory", "CPU", "Network", "Disk">>

RulePriority(c) ==
  CASE c \in {"Build", "Startup", "Memory"} -> "High"
    [] c \in {"CPU", "Disk"} -> "Medium"
    [] OTHER -> "Low"

\* the condition of the threshold rule of category c on report p
\* (percentages and latencies are carried in hundredths)
RuleHolds(c, p) ==
  CASE c = "Build" -> p.buildTime.average > 60000
    [] c = "Startup" -> p.startupTime.average > 10000
    [] c = "Memory" -> p.memoryUsage.percentage > 8000
    [] c = "CPU" -> p.cpuUsage.average > 5000
    [] c = "Network" -> p.networkLatency.status = "Success"
                        /\ p.networkLatency.average > 10000
    [] OTHER -> p.diskIO.overall = "Poor"

\* C17: the recommendations of a report are exactly the records of the rules
\* whose condition holds, once each, in the order Build, Startup, Memory, CPU,
\* Network, Disk, with the rule's priority; a value at its threshold gives no
\* record, and a report whose only finding is an average build time of 65000
\* gets the one record (Build, High).
C17_RecommendationsMatchRules ==
  "recommendations" \in DOMAIN performance =>
    LET r == performance.recommendations
        Holds(c) == RuleHolds(c, performance)
        expected == SelectSeq(RuleOrder, Holds)
    IN /\ Len(r) = Len(expected)
       /\ \A j \in 1..Len(r) :
            /\ r[j].category = expected[j]
            /\ r[j].priority = RulePriority(expected[j])
       /\ \A j, k \in 1..Len(r) : j # k => r[j].category # r[k].category
       /\ ( /\ performance.buildTime.average = 65000
            /\ \A k \in 2..Len(RuleOrder) : ~Holds(RuleOrder[k]) )
            => r = <<[category |-> "Build", priority |-> "High"]>>

\* a report with an average build time of 65000 and nothing else to remark,
\* its startup average at the threshold
C17_Witness ==
  /\ "recommendations" \in DOMAIN performance
  /\ performance.buildTime.average = 65000
  /\ performance.startupTime.average = 10000
  /\ performance.recommendations = <<[category |-> "Build", priority |-> "High"]>>

\* C16: in the CPU probe a `docker stats` sample that fails is skipped: the
\* samples collected so far are kept, the probe goes on to its next sample or
\* to its teardown, and the sample count it reports is the number of samples
\* that succeeded.
C16_FailedCpuSampleIsSkipped ==
  [][pc = "cpu.stats" =>
       /\ pc' \in {"cpu.stats", "cpu.stop"}
       /\ Len(measurements') >= Len(measurements)
       /\ "cpuUsage" \in DOMAIN performance' =>
            performance'.cpuUsage.samples >= Len(measurements)
    ]_vars

\* C18: when the network probe has returned, the targets of its result are
\* exactly the targets whose ping responded, none of them with a zero
\* latency, its status is Success iff at least one target responded, and its
\* average is the mean over the listed targets.
C18_NetworkResultListsResponders ==
  ( /\ pc = "disk.run"
    /\ "networkLatency" \in DOMAIN performance
    /\ handle.id = ContainerName("network", 0) ) =>
    LET r == performance.networkLatency
        n == Len(r.targets)
    IN /\ {r.targets[k].target : k \in 1..n} = handle.responded
       /\ \A k \in 1..n : r.targets[k].avgTime > 0
       /\ r.status = "Success" <=> handle.responded # {}
       /\ r.status \in {"Success", "Failed"}
       /\ n > 0 =>
            /\ 2 * n * r.average <= 2 * SumAvg(r.targets) + n
            /\ 2 * SumAvg(r.targets) + n < 2 * n * (r.average + 1)

\* C19: when the disk probe has returned, the read test was attempted whatever
\* the write test did, the statuses of the two directions in the result are
\* the ones testDiskWrite and testDiskRead returned, and the container has had
\* its stop and its remove, also when a direction failed.
C19_DiskDirectionsIndependent ==
  ( /\ pc = "recommend"
    /\ "diskIO" \in DOMAIN performance
    /\ handle.id = ContainerName("disk", 0) ) =>
    /\ handle.write \in {"Success", "Failed"}
    /\ handle.read \in {"Success", "Failed"}
    /\ performance.diskIO.write.status = handle.write
    /\ performance.diskIO.read.status = handle.read
    /\ handle.stops = 1
    /\ handle.rms = 1

\* C20: scanVulnerabilities goes from each tier that fails to the next one,
\* Docker Scout, Trivy, heuristic: a Docker Scout scan that does not deliver
\* a result is followed by the attempt to use Trivy, a Trivy tier that does
\* not deliver is followed by the heuristic, and the heuristic always delivers.
C20_ScannerTiersFallThrough ==
  [][/\ (pc = "vuln.scoutVersion") => pc' \in {"vuln.scout", "vuln.trivyVersion"}
     /\ (pc = "vuln.scout" /\ "vulnerabilities" \notin DOMAIN scan')
          => pc' = "vuln.trivyVersion"
     /\ (pc = "vuln.trivyVersion") => pc' \in {"vuln.trivy", "vuln.os"}
     /\ (pc = "vuln.trivy" /\ "vulnerabilities" \notin DOMAIN scan')
          => pc' = "vuln.os"
     /\ (pc = "vuln.os") => pc' = "vuln.node"
     /\ (pc = "vuln.node") => pc' = "vuln.npm"
     /\ (pc = "vuln.npm") => "vulnerabilities" \in DOMAIN scan'
    ]_vars

\* ------------------------------------------------------------------------
\* Helper methods on their own: a method is called with an argument drawn
\* from a bounded set, and returns or raises
\* ------------------------------------------------------------------------
MaxVersionParts == 3

VersionParts == {0, 1, 2, 4, 5, 17, 20, 21, 22, 29, 88}

VersionNumbers == UNION {[1..n -> VersionParts] : n \in 1..MaxVersionParts}

RECURSIVE Digits(_)
Digits(n) ==
  IF n < 10 THEN <<DigitChars[n + 1]>>
  ELSE Digits(n \div 10) \o <<DigitChars[(n % 10) + 1]>>

\* the version string of a list of numbers: <<4, 17>> is "4.17"
RECURSIVE Dotted(_)
Dotted(ns) ==
  IF Len(ns) = 1 THEN Digits(ns[1])
  ELSE Digits(ns[1]) \o <<".">> \o Dotted(Tail(ns))

PackageNames == {"lodash", "axios", "request", "moment", "express", "constructor"}

\* the calls of checkPackageVulnerability, each with the numbers its version
\* was written from
PackageCalls ==
  { [method |-> "checkPackageVulnerability", state |-> "called",
     arg |-> [name |-> name, version |-> Dotted(ns)], numbers |-> ns] :
    name \in PackageNames, ns \in VersionNumbers }

SizeNumbers == {0, 100, 150, 200, 12800, 51200}

SizeStrings ==
  { [n |-> n, sep |-> sep, unit |-> unit] :
    n \in SizeNumbers, sep \in {"", " "},
    unit \in MemorySuffixes \cup SizeSuffixes }

ParseCalls ==
  { [method |-> "parseMemorySize", state |-> "called", arg |-> sizeStr,
     origin |-> NaN] : sizeStr \in SizeStrings }

\* byte counts, in hundredths
ByteCounts ==
  {0, 51200, 102300, 102400, 153600, 104857600, 524288000}

FormatCalls ==
  { [method |-> "formatMemorySize", state |-> "called", arg |-> bytes] :
    bytes \in ByteCounts }

\* buildTempImage as another invocation of the tool, running at the same
\* time, has called it: its own reading of Date.now() and the tag it built
PeerBuilds ==
  { [method |-> "buildTempImage", state |-> "returned", arg |-> name,
     result |-> TempTag(name, t)] :
    name \in {PerfImageName, ScanImageName}, t \in 1..MaxNow }

MaxFindings == 2

Severities ==
  {"CRITICAL", "HIGH", "Medium", "low", "UNKNOWN", "info", "NEGLIGIBLE"}

\* the findings of a Trivy result, one package each
TrivyFindings ==
  UNION { [1..n -> { [package |-> "openssl", version |-> <<"3", ".", "0">>,
                      severity |-> sev] : sev \in Severities }] :
          n \in 0..MaxFindings }

TrivyCalls ==
  { [method |-> "parseTrivyResults", state |-> "called",
     arg |-> [json |-> TRUE, Results |-> <<[Vulnerabilities |-> found]>>]] :
    found \in TrivyFindings }
  \cup { [method |-> "parseTrivyResults", state |-> "called",
          arg |-> [json |-> TRUE, Results |-> <<>>]] }

InstalledPackages ==
  { [name |-> "request", version |-> <<"2", ".", "8", "8", ".", "0">>],
    [name |-> "lodash", version |-> <<"4", ".", "1", "7", ".", "2", "0">>],
    [name |-> "axios", version |-> <<"0", ".", "2", "1", ".", "0">>],
    [name |-> "moment", version |-> <<"2", ".", "2", "9", ".", "4">>],
    [name |-> "express", version |-> <<"4", ".", "1", "8", ".", "2">>] }

BasicScanCalls ==
  { [method |-> "basicVulnerabilityScan", state |-> "called",
     arg |-> [version |-> v, packages |-> ps]] :
    v \in NodeVersionOutputs \cup {<<>>},
    ps \in UNION {[1..n -> InstalledPackages] : n \in 0..MaxFindings} }

\* speeds in hundredths of MB/s, around the limits of the bands
DiskSpeeds == {0, 1000, 2000, 2001, 3000, 5000, 7000, 10000, 10001, 15000}

DiskTests ==
  {DiskTestFailed} \cup
  { [speed |-> speed, unit |-> "MB/s", status |-> "Success"] : speed \in DiskSpeeds }

DiskCalls ==
  { [method |-> "calculateOverallDiskPerformance", state |-> "called",
     arg |-> [writeTest |-> w, readTest |-> r]] : w \in DiskTests, r \in DiskTests }

\* Node.js versions: major, minor and patch around the listed limits
NodeVersions ==
  { <<major, minor, patch>> : major \in {12, 14, 15, 16, 17, 18, 19, 20, 21},
                              minor \in {0, 4, 5, 16, 17},
                              patch \in {0, 1} }

NodeVersionCalls ==
  { [method |-> "isNodeVulnerable", state |-> "called",
     arg |-> <<"v">> \o Dotted(ns), numbers |-> ns] : ns \in NodeVersions }

\* outputs of `docker history`: those of the scan, and one whose first line
\* has an empty command field
HistoryCalls ==
  { [method |-> "analyzeLayers", state |-> "called", arg |-> lines] :
    lines \in HistoryOutputs \cup
              { << HistoryLine("", [n |-> 5, unit |-> "MB"]),
                   HistoryLine("RUN npm ci", [n |-> 900, unit |-> "kB"]) >> } }

\* image and layer sizes as the engine prints them, and with the suffixes
\* of the memory statistics
LayerSizes ==
  { [n |-> n, unit |-> unit] :
    n \in {0, 5, 900}, unit \in SizeSuffixes \cup MemorySuffixes }

ParseSizeCalls ==
  { [method |-> "parseSize", state |-> "called", arg |-> sizeStr] :
    sizeStr \in LayerSizes }

\* a helper is about to be called, or an invocation starts next to another
HelperInit ==
  /\ \/ /\ entry = "helper"
        /\ pc = "helper"
        /\ imageTag = Null
        /\ call \in PackageCalls \cup ParseCalls \cup FormatCalls
                    \cup TrivyCalls \cup BasicScanCalls \cup DiskCalls
                    \cup NodeVersionCalls \cup HistoryCalls
                    \cup ParseSizeCalls
     \/ /\ entry \in {"testPerformance", "scanImage"}
        /\ pc = "acquire"
        /\ imageTag \in {Null, "myapp:latest"}
        /\ call \in PeerBuilds
  /\ imageToTest = Null
  /\ i = 0
  /\ containerId = NoContainer
  /\ waited = 0
  /\ times = <<>>
  /\ stats = NoStats
  /\ measurements = <<>>
  /\ pingResults = <<>>
  /\ writeTest = DiskTestFailed
  /\ readTest = DiskTestFailed
  /\ performance = EmptyPerformance
  /\ scan = EmptyScan
  /\ nodeVersion = <<>>
  /\ secrets = <<>>
  /\ permissions = NoPermissions
  /\ tempDir = FALSE
  /\ error = NoError
  /\ outcome = Pending
  /\ live = 0
  /\ handle = NoHandle
  /\ stages = <<>>
  /\ acquireBuilds = 0
  /\ released = 0
  /\ releaseFailed = FALSE
  /\ rmiTags = {}
  /\ usedImages = {}

HelperFixed ==
  UNCHANGED <<entry, imageTag, imageToTest, pc, i, locals, performance, scan,
              scanLocals, error, outcome, live, observers>>

HelperReturn(result) ==
  call' = ("result" :> result) @@ [call EXCEPT !.state = "returned"]

HelperThrow == call' = [call EXCEPT !.state = "threw"]

checkPackageVulnerability_call ==
  /\ call.method = "checkPackageVulnerability"
  /\ call.state = "called"
  /\ IF checkPackageVulnerabilityThrows(call.arg)
     THEN HelperThrow
     ELSE HelperReturn(checkPackageVulnerability(call.arg))
  /\ HelperFixed

parseMemorySize_call ==
  /\ call.method = "parseMemorySize"
  /\ call.state = "called"
  /\ HelperReturn(parseMemorySize(call.arg))
  /\ HelperFixed

formatMemorySize_call ==
  /\ call.method = "formatMemorySize"
  /\ call.state = "called"
  /\ HelperReturn(formatMemorySize(call.arg))
  /\ HelperFixed

\* a caller hands the formatted size back to parseMemorySize
ParseFormatted ==
  /\ call.method = "formatMemorySize"
  /\ call.state = "returned"
  /\ call' = [method |-> "parseMemorySize", state |-> "called",
              arg |-> call.result, origin |-> call.arg]
  /\ HelperFixed

parseTrivyResults_call ==
  /\ call.method = "parseTrivyResults"
  /\ call.state = "called"
  /\ HelperReturn(parseTrivyResults(call.arg))
  /\ HelperFixed

basicVulnerabilityScan_call ==
  /\ call.method = "basicVulnerabilityScan"
  /\ call.state = "called"
  /\ HelperReturn(basicVulnerabilityScan(call.arg.version, call.arg.packages))
  /\ HelperFixed

calculateOverallDiskPerformance_call ==
  /\ call.method = "calculateOverallDiskPerformance"
  /\ call.state = "called"
  /\ HelperReturn(calculateOverallDiskPerformance(call.arg.writeTest,
                                                  call.arg.readTest))
  /\ HelperFixed

isNodeVulnerable_call ==
  /\ call.method = "isNodeVulnerable"
  /\ call.state = "called"
  /\ HelperReturn(isNodeVulnerable(call.arg))
  /\ HelperFixed

\* analyzeLayers once the engine has printed the history
analyzeLayers_call ==
  /\ call.method = "analyzeLayers"
  /\ call.state = "called"
  /\ HelperReturn(LayersResult(call.arg))
  /\ HelperFixed

parseSize_call ==
  /\ call.method = "parseSize"
  /\ call.state = "called"
  /\ HelperReturn(parseSize(call.arg))
  /\ HelperFixed

HelperNext ==
  \/ Acquire
  \/ parseSize_call
  \/ analyzeLayers_call
  \/ isNodeVulnerable_call
  \/ calculateOverallDiskPerformance_call
  \/ parseTrivyResults_call
  \/ basicVulnerabilityScan_call
  \/ checkPackageVulnerability_call
  \/ parseMemorySize_call
  \/ formatMemorySize_call
  \/ ParseFormatted

HelperSpec == HelperInit /\ [][HelperNext]_vars

\* the table of checkPackageVulnerability as the numbers a version must be
\* lower than
VulnerableBelow ==
  [lodash |-> [below |-> <<4, 17, 21>>, severity |-> "high"],
   axios |-> [below |-> <<0, 21, 1>>, severity |-> "medium"],
   moment |-> [below |-> <<2, 29, 4>>, severity |-> "medium"]]

\* a is lower than b, number by number, a missing number counting as 0
RECURSIVE LowerThan(_, _)
LowerThan(a, b) ==
  IF a = <<>> /\ b = <<>> THEN FALSE
  ELSE LET x == IF a = <<>> THEN 0 ELSE Head(a)
           y == IF b = <<>> THEN 0 ELSE Head(b)
       IN \/ x < y
          \/ x = y /\ LowerThan(IF a = <<>> THEN a ELSE Tail(a),
                                IF b = <<>> THEN b ELSE Tail(b))

\* C21: checkPackageVulnerability returns a finding exactly when the package
\* is 'request' (any version, severity high) or is in the table with a '<v'
\* range and its version is lower than v number by number; the finding has
\* the severity of the table, and a package outside the table yields none.
C21_FindingIffInTableAndInRange ==
  (call.method = "checkPackageVulnerability" /\ call.state # "called") =>
    LET name == call.arg.name
        found == call.state = "returned" /\ call.result # <<>>
        expected ==
          \/ name = "request"
          \/ /\ name \in DOMAIN VulnerableBelow
             /\ LowerThan(call.numbers, VulnerableBelow[name].below)
        severity ==
          IF name = "request" THEN "high" ELSE VulnerableBelow[name].severity
    IN /\ found <=> expected
       /\ found =>
            call.result = << [package |-> name, version |-> call.arg.version,
                              severity |-> severity] >>

C21_Witness ==
  /\ call.method = "checkPackageVulnerability"
  /\ call.state = "returned"
  /\ call.arg = [name |-> "request", version |-> <<"2", ".", "8", "8", ".", "0">>]
  /\ Len(call.result) = 1
  /\ call.result[1].severity = "high"

\* the power of 1024 each suffix stands for
BinaryExponent == [B |-> 0, KiB |-> 1, MiB |-> 2, GiB |-> 3, TiB |-> 4]

\* r = n * 1024^k, without computing the product
RECURSIVE IsTimesPow(_, _, _)
IsTimesPow(r, n, k) ==
  IF k = 0 THEN r = n
  ELSE r % 1024 = 0 /\ IsTimesPow(r \div 1024, n, k - 1)

\* C22: parseMemorySize turns a number followed by B, KiB, MiB, GiB or TiB
\* into the number times 1024 to the power 0, 1, 2, 3 or 4: "128MiB" is
\* 128 x 1024^2 bytes and "2GiB" is 2 x 1024^3 bytes.
C22_ParsedSizeIsBinaryMultiple ==
  ( /\ call.method = "parseMemorySize"
    /\ call.state = "returned"
    /\ call.arg.sep = ""
    /\ call.arg.unit \in DOMAIN BinaryExponent ) =>
    IsTimesPow(call.result, call.arg.n, BinaryExponent[call.arg.unit])

\* C23: parseMemorySize of what formatMemorySize printed for a byte count is
\* that byte count, up to the rounding of the printed number to two decimals.
C23_FormatThenParseRoundTrip ==
  ( /\ call.method = "parseMemorySize"
    /\ call.state = "returned"
    /\ call.origin # NaN ) =>
    LET unit == Pow(1024, BinaryExponent[call.arg.unit])
        diff == IF call.result > call.origin THEN call.result - call.origin
                ELSE call.origin - call.result
    IN call.result # NaN /\ 2 * diff <= unit

\* the band of a percentage (in hundredths)
Band(percentage) ==
  IF percentage < 1000 THEN "Excellent"
  ELSE IF percentage < 2500 THEN "Good"
  ELSE IF percentage < 5000 THEN "Fair"
  ELSE "Poor"

\* C24: the efficiency rating of a measured memory result is the band of the
\* percentage of the limit reported in the same result: below 10 Excellent,
\* below 25 Good, below 50 Fair, otherwise Poor.
C24_MemoryRatingAgreesWithPercentage ==
  ( /\ "memoryUsage" \in DOMAIN performance
    /\ performance.memoryUsage.efficiency # "Unknown" ) =>
    performance.memoryUsage.efficiency = Band(performance.memoryUsage.percentage)

\* C25: the layers field of analyzeLayers' result lists the layers in the
\* order of the engine's history output; computing the largest layers does
\* not reorder it.
C25_LayersKeepHistoryOrder ==
  "layers" \in DOMAIN scan =>
    \/ scan.layers = NoLayers
    \/ \E output \in HistoryOutputs : scan.layers.layers = SelectLayers(output)

\* the bytes of a size with the decimal suffixes B, kB, MB, GB
DecimalBytes(size) ==
  size.n * (CASE size.unit = "B" -> 1
              [] size.unit = "kB" -> 1000
              [] size.unit = "MB" -> 1000 * 1000
              [] size.unit = "GB" -> 1000 * 1000 * 1000)

\* C26: largestLayers holds the min(5, n) layers of greatest size in bytes,
\* largest first, a suffix standing for a power of 1000: a layer of 5MB
\* comes before a layer of 900kB.
C26_LargestLayersByBytes ==
  "layers" \in DOMAIN scan =>
    LET all == scan.layers.layers
        largest == scan.layers.largestLayers
        rest == {k \in 1..Len(all) : \A j \in 1..Len(largest) : all[k] # largest[j]}
    IN /\ Len(largest) = (IF Len(all) < 5 THEN Len(all) ELSE 5)
       /\ \A j \in 1..(Len(largest) - 1) :
            DecimalBytes(largest[j].size) >= DecimalBytes(largest[j + 1].size)
       /\ \A k \in rest, j \in 1..Len(largest) :
            DecimalBytes(all[k].size) <= DecimalBytes(largest[j].size)

\* C27: once scanSecrets has returned, the directory .trouter-temp does not
\* exist, whether the scan succeeded, the copy out of the container failed,
\* the directory scan failed or the removal of the container failed.
C27_TempDirRemovedOnEveryPath ==
  "secrets" \in DOMAIN scan => ~tempDir

\* C28: two invocations of the tool that build their own image at
\* overlapping times have different temporary tags: the tag this invocation
\* built is not the tag the other invocation built.
C28_ConcurrentTagsDiffer ==
  (call.method = "buildTempImage" /\ OwnImage) => imageToTest # call.result

\* C29: waitForContainer returns ready only in an iteration of its loop
\* whose state inspect answered running and whose health inspect failed or
\* answered none or healthy; the startup measurement goes on to its cleanup
\* only after such an iteration.
C29_ReadyOnlyWhenRunningAndNotUnhealthy ==
  [][ /\ (pc = "st.wait" /\ handle'.wait = "ready") =>
           /\ handle'.status = "running"
           /\ handle'.health \in {"fail", "none", "healthy"}
      /\ (pc = "st.wait" /\ pc' = "st.stop") => handle'.wait = "ready"
      /\ (pc # "st.wait" /\ handle.wait # "ready") => handle'.wait # "ready"
    ]_vars

C29_Witness ==
  /\ handle.wait = "ready"
  /\ handle.slept
  /\ handle.status = "running"
  /\ handle.health = "healthy"

BuildTimePcs == {"bt.build", "bt.rmi"}
StartupTimePcs == {"st.run", "st.wait", "st.stop", "st.rm"}

\* the samples a timing result was computed from
Samples(r) == IF "samples" \in DOMAIN r THEN r.samples ELSE 0

\* the samples collected after a step of a timing probe
SamplesAfter(field) ==
  IF Returns(field) THEN Samples(performance'[field]) ELSE Len(times')

\* a step of the loop of a timing probe: the probe stays in its loop or
\* returns, returns only from its n-th iteration, and begins each iteration
\* one after the other
LoopStep(pcs, first, field, n) ==
  /\ (pc \notin pcs /\ pc' = first) => i' = 0
  /\ (pc \in pcs /\ pc' # "catch") =>
       /\ pc' \in pcs \/ Returns(field)
       /\ Returns(field) => i = n - 1
       /\ pc' = first => (i' = i + 1 /\ i' < n)
       /\ pc' \in pcs \ {first} => i' = i

\* C30: the build-time probe attempts exactly 3 iterations and the startup
\* probe exactly 5, whatever fails in an iteration; an iteration adds a sample
\* exactly when its build, or its launch followed by readiness, succeeded,
\* and the sample stays when the cleanup after the measurement fails.
C30_AllIterationsAttempted ==
  [][ /\ LoopStep(BuildTimePcs, "bt.build", "buildTime", 3)
      /\ LoopStep(StartupTimePcs, "st.run", "startupTime", 5)
      /\ (pc = "bt.build" /\ pc' # "catch") =>
           SamplesAfter("buildTime") =
             Len(times) + (IF pc' = "bt.rmi" THEN 1 ELSE 0)
      /\ (pc = "bt.rmi") => SamplesAfter("buildTime") = Len(times)
      /\ (pc = "st.run" /\ pc' # "catch") =>
           SamplesAfter("startupTime") = Len(times)
      /\ (pc = "st.wait") =>
           SamplesAfter("startupTime") =
             Len(times) + (IF handle'.wait = "ready" THEN 1 ELSE 0)
      /\ (pc \in {"st.stop", "st.rm"}) =>
           SamplesAfter("startupTime") = Len(times)
    ]_vars

C30_Witness ==
  /\ pc = "mem.run"
  /\ Samples(performance.buildTime) = 2
  /\ Samples(performance.startupTime) = 5
  /\ handle.stopFailed

SecretsPcs == {"sec.create", "sec.cp", "sec.rm"}

\* C31: scanSecrets creates its container without starting it; once the
\* container exists, one remove of it is issued on every path before the
\* probe returns, none when the create failed; after the create the probe
\* never raises, and it returns the findings collected up to the failure.
C31_SecretsContainerRemovedOnce ==
  [][ /\ (pc \in {"sec.cp", "sec.rm"}) => pc' # "catch"
      /\ (pc = "sec.create" /\ pc' # "catch") =>
           \/ pc' = "sec.cp" /\ handle'.id = "created" /\ handle'.rms = 0
           \/ /\ "secrets" \in DOMAIN scan'
              /\ scan'.secrets = <<>>
              /\ handle' = NoHandle
      /\ (pc \in SecretsPcs) => (live' = live /\ handle'.stops = 0)
      /\ (pc = "sec.cp") =>
           pc' = "sec.rm" /\ handle'.rms = 0 /\ "secrets" \notin DOMAIN scan'
      /\ (pc = "sec.rm") =>
           /\ handle'.rms = 1
           /\ "secrets" \in DOMAIN scan'
           /\ scan'.secrets = secrets
    ]_vars

C31_Witness ==
  /\ "secrets" \in DOMAIN scan
  /\ handle.id = "created"
  /\ handle.rms = 1
  /\ tempDir
  /\ Len(scan.secrets) = 1

\* the report lists a recommendation of category c
Recommends(c) ==
  \E k \in 1..Len(performance.recommendations) :
    performance.recommendations[k].category = c

\* the timing result of a probe none of whose iterations gave a sample
ZeroRecord(r) == r.average = 0 /\ r.min = 0 /\ r.max = 0 /\ Samples(r) = 0

AllProbesFailed ==
  /\ ZeroRecord(performance.buildTime)
  /\ ZeroRecord(performance.startupTime)
  /\ performance.memoryUsage = MemoryFailed
  /\ performance.cpuUsage.samples = 0
  /\ performance.networkLatency.status = "Failed"
  /\ performance.diskIO.overall = "Unknown"

\* C32: the failure value of a probe never triggers its recommendation: a
\* report of failure values only has no recommendations, and a disk result
\* with a failed direction never yields the Disk recommendation.
C32_SentinelsTriggerNoRecommendation ==
  "recommendations" \in DOMAIN performance =>
    /\ ZeroRecord(performance.buildTime) => ~Recommends("Build")
    /\ ZeroRecord(performance.startupTime) => ~Recommends("Startup")
    /\ performance.memoryUsage = MemoryFailed => ~Recommends("Memory")
    /\ performance.cpuUsage.samples = 0 => ~Recommends("CPU")
    /\ performance.networkLatency.status = "Failed" => ~Recommends("Network")
    /\ ( \/ performance.diskIO.write.status = "Failed"
         \/ performance.diskIO.read.status = "Failed" ) => ~Recommends("Disk")
    /\ AllProbesFailed => performance.recommendations = <<>>

C32_Witness ==
  /\ "recommendations" \in DOMAIN performance
  /\ AllProbesFailed
  /\ performance.recommendations = <<>>

SeverityTiers == {"critical", "high", "medium", "low", "info"}

\* the tier a severity names, whatever its case; info for any other word
TierOf(severity) ==
  CASE severity \in {"critical", "CRITICAL", "Critical"} -> "critical"
    [] severity \in {"high", "HIGH", "High"} -> "high"
    [] severity \in {"medium", "MEDIUM", "Medium"} -> "medium"
    [] severity \in {"low", "LOW", "Low"} -> "low"
    [] OTHER -> "info"

\* the findings a Trivy document carries in its first result
FirstResult(data) ==
  IF data.Results = <<>> THEN <<>> ELSE data.Results[1].Vulnerabilities

\* C33: a vulnerability report of the Trivy tier or of the heuristic tier
\* has total = |critical| + |high| + |medium| + |low| + |info|, and every
\* finding is in the one bucket its severity names, compared without regard
\* to case, or in info when the severity names none of the five.
C33_ReportBucketsAndTotal ==
  ( /\ call.method \in {"parseTrivyResults", "basicVulnerabilityScan"}
    /\ call.state = "returned" ) =>
    LET r == call.result
    IN /\ r.total = Len(r.critical) + Len(r.high) + Len(r.medium)
                      + Len(r.low) + Len(r.info)
       /\ \A b \in SeverityTiers : \A k \in 1..Len(r[b]) :
            TierOf(r[b][k].severity) = b
       /\ call.method = "parseTrivyResults" =>
            \A b \in SeverityTiers :
              r[b] = SelectSeq(FirstResult(call.arg),
                               LAMBDA f : TierOf(f.severity) = b)

C33_Witness ==
  /\ call.method = "parseTrivyResults"
  /\ call.state = "returned"
  /\ call.result.total = 2
  /\ Len(call.result.critical) = 1
  /\ Len(call.result.info) = 1
  /\ call.result.info[1].severity = "NEGLIGIBLE"

\* the findings of a tree with each file named by its path below /app
RECURSIVE RelativeFindings(_, _)
RelativeFindings(entries, prefix) ==
  IF entries = <<>> THEN <<>>
  ELSE LET e == Head(entries)
       IN (IF e.dir THEN RelativeFindings(e.entries, prefix \o e.name \o "/")
           ELSE IF e.scanned
           THEN [k \in 1..Len(e.hits) |->
                   [file |-> prefix \o e.name, type |-> e.hits[k].type,
                    matches |-> e.hits[k].matches, severity |-> "high"]]
           ELSE <<>>)
          \o RelativeFindings(Tail(entries), prefix)

\* C34: every secret finding names its file by the path relative to the
\* extracted application directory, and no two findings share file and
\* category: files of the same name in different subdirectories give
\* findings with different paths.
C34_FindingsNameRelativePath ==
  "secrets" \in DOMAIN scan =>
    /\ \E tree \in AppTrees :
         LET all == RelativeFindings(tree.entries, "")
         IN \E n \in 0..Len(all) : scan.secrets = SubSeq(all, 1, n)
    /\ \A j, k \in 1..Len(scan.secrets) :
         ( /\ scan.secrets[j].file = scan.secrets[k].file
           /\ scan.secrets[j].type = scan.secrets[k].type ) => j = k

\* C35: calculateOverallDiskPerformance returns Unknown whenever the write
\* or the read test failed; otherwise it rates the mean of the two speeds:
\* above 100 Excellent, above 50 Good, above 20 Fair, else Poor, a mean
\* equal to 100, 50 or 20 falling in the lower band.
C35_DiskRatingBands ==
  ( /\ call.method = "calculateOverallDiskPerformance"
    /\ call.state = "returned" ) =>
    LET w == call.arg.writeTest
        r == call.arg.readTest
        twiceMean == w.speed + r.speed
    IN call.result =
         IF w.status = "Failed" \/ r.status = "Failed" THEN "Unknown"
         ELSE IF twiceMean > 20000 THEN "Excellent"
         ELSE IF twiceMean > 10000 THEN "Good"
         ELSE IF twiceMean > 4000 THEN "Fair"
         ELSE "Poor"

C35_Witness ==
  /\ call.method = "calculateOverallDiskPerformance"
  /\ call.state = "returned"
  /\ call.arg.writeTest.status = "Success"
  /\ call.arg.readTest.status = "Success"
  /\ call.arg.writeTest.speed + call.arg.readTest.speed = 20000
  /\ call.result = "Good"

\* C37: isNodeVulnerable flags exactly the versions of major 14, 15, 16 and
\* 17, the 18.x versions below 18.17.0 and the 20.x versions below 20.5.0,
\* and no other version.
C37_NodeVersionFlaggedExactly ==
  ( /\ call.method = "isNodeVulnerable"
    /\ call.state = "returned" ) =>
    LET ns == call.numbers
    IN call.result <=>
         \/ ns[1] \in 14..17
         \/ ns[1] = 18 /\ LowerThan(ns, <<18, 17, 0>>)
         \/ ns[1] = 20 /\ LowerThan(ns, <<20, 5, 0>>)

\* C36: analyzeLayers drops a history line that lacks a command or a size,
\* the empty line after a trailing newline included, and still reports the
\* well-formed lines: with n of them, total is n and layers has n entries.
C36_WellFormedLinesReported ==
  ( /\ call.method = "analyzeLayers"
    /\ call.state = "returned" ) =>
    LET wellFormed == {k \in 1..Len(call.arg) :
                         /\ call.arg[k].fields = 2
                         /\ call.arg[k].command # ""
                         /\ call.arg[k].size # NoSize}
    IN /\ call.result.total = Cardinality(wellFormed)
       /\ Len(call.result.layers) = Cardinality(wellFormed)

PermissionPcs == {"perm.whoami", "perm.touch", "perm.sudo"}

\* the issues and the suggestions that the three flags call for, in the
\* order of the checks
IssuesOf(p) ==
  (IF p.runningAsRoot THEN <<"Container is running as root user">> ELSE <<>>)
  \o (IF p.sudoInstalled THEN <<"sudo is installed in container">> ELSE <<>>)

SuggestionsOf(p) ==
  (IF p.runningAsRoot THEN <<"Create and use a non-root user">> ELSE <<>>)
  \o (IF p.writableFileSystem
      THEN <<"Consider using read-only filesystem where possible">> ELSE <<>>)
  \o (IF p.sudoInstalled
      THEN <<"Remove sudo from production containers">> ELSE <<>>)

\* C38: once its commands run, analyzePermissions never raises; in its
\* result runningAsRoot holds exactly when the root issue is listed and
\* sudoInstalled exactly when the sudo issue is listed, each issue has its
\* suggestion, in the order of the checks; a failing `which sudo` leaves
\* sudoInstalled false and keeps what the earlier checks found.
C38_PermissionsFlagsMatchIssues ==
  [][ (pc \in PermissionPcs) =>
        /\ (pc # "perm.whoami") => pc' # "catch"
        /\ (pc = "perm.sudo") => "permissions" \in DOMAIN scan'
        /\ ("permissions" \in DOMAIN scan') =>
             LET p == scan'.permissions
             IN /\ p.issues = IssuesOf(p)
                /\ p.suggestions = SuggestionsOf(p)
                /\ p.runningAsRoot = permissions.runningAsRoot
                /\ p.writableFileSystem = permissions.writableFileSystem
                /\ (pc # "perm.sudo") => ~p.sudoInstalled
    ]_vars

C38_Witness ==
  /\ "permissions" \in DOMAIN scan
  /\ scan.permissions.runningAsRoot
  /\ scan.permissions.writableFileSystem
  /\ ~scan.permissions.sudoInstalled
  /\ Len(scan.permissions.suggestions) = 2

\* C39: neither parser yields a byte value for a string that carries the
\* other convention's suffix: parseMemorySize gives NaN for kB, MB and GB,
\* parseSize gives NaN for KiB, MiB, GiB and TiB.
C39_ForeignSuffixHasNoByteValue ==
  /\ ( /\ call.method = "parseMemorySize"
       /\ call.state = "returned"
       /\ call.arg.unit \in {"kB", "MB", "GB"} ) => call.result = NaN
  /\ ( /\ call.method = "parseSize"
       /\ call.state = "returned"
       /\ call.arg.unit \in {"KiB", "MiB", "GiB", "TiB"} ) => call.result = NaN

C39_Witness ==
  /\ call.method = "parseMemorySize"
  /\ call.state = "returned"
  /\ call.arg = [n |-> 12800, sep |-> "", unit |-> "MB"]
  /\ call.result = NaN

====
